---- MODULE Spec2Model ----
(***************************************************************************)
(* A model of bear-query: the result tabulizer (src/src/dataframe.rs), the *)
(* schema discovery and view generation (src/src/schema.rs) and the BearDb *)
(* handle with its Queryable gateway (src/src/lib.rs).                     *)
(***************************************************************************)
EXTENDS Integers, Sequences, FiniteSets, TLC

VARIABLES
  name,          \* build_series: the column name passed in
  values,        \* build_series: the column buffer passed in
  series,        \* build_series: the Column returned, or NoSeries before the call
  pc,            \* query_to_dataframe: "start", "rows" (in the row loop) or "done"
  stmt,          \* query_to_dataframe: the prepared statement (column names, rows to yield)
  columns,       \* query_to_dataframe: the column buffers
  next_row,      \* query_to_dataframe: index of the row the iterator yields next
  result,        \* query_to_dataframe: what it returned, Ok(DataFrame) or Err(BearError)
  install,       \* the installation: its version numbers and the pairs put in the junction table
  database,      \* the database file: its tables in sqlite_master order
  beardb,        \* BearDb::new_with_path: what it returned, Ok(BearDb) or Err(BearError)
  query_result,  \* an accessor of the BearDb: what it returned
  call,          \* the operation of the BearDb in progress, with its arguments
  at,            \* the position in that operation
  connections,   \* the connections that are open, the latest last
  statement,     \* the statement Queryable::prepare returned to the closure
  prepared,      \* the texts the operation handed to Connection::prepare
  outcome,       \* what discovery or the closure produced, before it is returned
  trace          \* counts: open_connection calls of the operation, discoveries, generations

seriesVars == <<name, values, series>>

queryVars == <<pc, stmt, columns, next_row, result>>

dbVars == <<install, database, beardb, query_result>>

gatewayVars == <<call, at, connections, statement, prepared, outcome, trace>>

vars == <<seriesVars, queryVars, dbVars, gatewayVars>>

(***************************************************************************)
(* Numbers.  An i64 is a sign and a magnitude; the magnitude is written in *)
(* four limbs of 16 bits, most significant first, so that values up to     *)
(* 2^63 are held exactly.  An f64 is sign * magnitude * 2^exp with a       *)
(* magnitude of at most 53 significant bits.                               *)
(***************************************************************************)
LimbBase == 2^16

F64MantissaBits == 53

I64(neg, mag) == [neg |-> neg, mag |-> mag]

F64(neg, mag, exp) == [neg |-> neg, mag |-> mag, exp |-> exp]

SmallMag(n) == <<0, 0, 0, n>>

Pow2Mag(k) == [j \in 1..4 |-> IF j = 4 - (k \div 16) THEN 2^(k % 16) ELSE 0]

\* the limbs brought back under LimbBase, carries propagated upwards
Carry(m) ==
  LET t4 == m[4]
      t3 == m[3] + (t4 \div LimbBase)
      t2 == m[2] + (t3 \div LimbBase)
      t1 == m[1] + (t2 \div LimbBase)
  IN  <<t1, t2 % LimbBase, t3 % LimbBase, t4 % LimbBase>>

\* m + n for a small n
MagPlus(m, n) == Carry(<<m[1], m[2], m[3], m[4] + n>>)

BitLen16(x) == IF x = 0 THEN 0 ELSE CHOOSE b \in 1..16 : 2^(b-1) <= x /\ x < 2^b

BitLen(m) ==
  IF m[1] > 0 THEN 48 + BitLen16(m[1])
  ELSE IF m[2] > 0 THEN 32 + BitLen16(m[2])
  ELSE IF m[3] > 0 THEN 16 + BitLen16(m[3])
  ELSE BitLen16(m[4])

\* a <= b on magnitudes
MagLeq(a, b) ==
  \/ a = b
  \/ \E j \in 1..4 : a[j] < b[j] /\ \A k \in 1..(j-1) : a[k] = b[k]

(***************************************************************************)
(* `i as f64`: the integer rounded to the nearest value with 53            *)
(* significant bits, ties to the even one.  More than 53 bits leaves at    *)
(* most 11 bits to drop, all of them in the lowest limb.                   *)
(***************************************************************************)
\* Variant of RoundToF64 that drops the low bits instead of rounding to nearest.
TruncToF64(m) ==
  IF BitLen(m) <= F64MantissaBits THEN m
  ELSE LET d == BitLen(m) - F64MantissaBits
       IN  <<m[1], m[2], m[3], (m[4] \div 2^d) * 2^d>>

RoundToF64(m) ==
  IF BitLen(m) <= F64MantissaBits THEN m
  ELSE LET d    == BitLen(m) - F64MantissaBits
           q    == m[4] \div 2^d
           low  == m[4] % 2^d
           half == 2^(d-1)
           up   == low > half \/ (low = half /\ q % 2 = 1)
       IN  Carry(<<m[1], m[2], m[3], (q + (IF up THEN 1 ELSE 0)) * 2^d>>)

IntToF64(i) == F64(i.neg, RoundToF64(i.mag), 0)

(***************************************************************************)
(* ColumnValue, the cell of a column buffer.                               *)
(***************************************************************************)
Null == [kind |-> "Null"]

Integer(i) == [kind |-> "Integer", v |-> i]

Real(f) == [kind |-> "Real", v |-> f]

Text(s) == [kind |-> "Text", v |-> s]

Blob(b) == [kind |-> "Blob", v |-> b]

\* Option<T>
None == [some |-> FALSE]

Some(x) == [some |-> TRUE, v |-> x]

NoSeries == [dtype |-> "none"]

(***************************************************************************)
(* build_series (dataframe.rs:101-172): the column type is inferred from   *)
(* the kinds present, then every cell is mapped into that type.            *)
(***************************************************************************)
has(kind, vs) == \E j \in DOMAIN vs : vs[j].kind = kind

Float64Cell(v) ==
  IF v.kind = "Real" THEN Some(v.v)
  ELSE IF v.kind = "Integer" THEN Some(IntToF64(v.v))
  ELSE None

\* Variant of Int64Cell that leaves a cell of another kind out of the null
\* channel: it yields a zero instead.
Int64Cell_zero(v) ==
  IF v.kind = "Integer" THEN Some(v.v)
  ELSE IF v.kind = "Null" THEN None
  ELSE Some(I64(FALSE, SmallMag(0)))

Int64Cell(v) == IF v.kind = "Integer" THEN Some(v.v) ELSE None

StringCell(v) == IF v.kind = "Text" THEN Some(v.v) ELSE None

BinaryCell(v) == IF v.kind = "Blob" THEN Some(v.v) ELSE None

Column(nm, dtype, data) == [name |-> nm, dtype |-> dtype, data |-> data]

\* Variant of build_series that looks for an integer before a float.
build_series_integer_first(nm, vs) ==
  IF has("Integer", vs) THEN
    Column(nm, "Int64", [j \in DOMAIN vs |-> Int64Cell(vs[j])])
  ELSE IF has("Real", vs) THEN
    Column(nm, "Float64", [j \in DOMAIN vs |-> Float64Cell(vs[j])])
  ELSE IF has("Text", vs) THEN
    Column(nm, "String", [j \in DOMAIN vs |-> StringCell(vs[j])])
  ELSE IF has("Blob", vs) THEN
    Column(nm, "Binary", [j \in DOMAIN vs |-> BinaryCell(vs[j])])
  ELSE
    Column(nm, "String", [j \in DOMAIN vs |-> None])

build_series(nm, vs) ==
  IF has("Real", vs) THEN
    Column(nm, "Float64", [j \in DOMAIN vs |-> Float64Cell(vs[j])])
  ELSE IF has("Integer", vs) THEN
    Column(nm, "Int64", [j \in DOMAIN vs |-> Int64Cell(vs[j])])
  ELSE IF has("Text", vs) THEN
    Column(nm, "String", [j \in DOMAIN vs |-> StringCell(vs[j])])
  ELSE IF has("Blob", vs) THEN
    Column(nm, "Binary", [j \in DOMAIN vs |-> BinaryCell(vs[j])])
  ELSE
    Column(nm, "String", [j \in DOMAIN vs |-> None])

(***************************************************************************)
(* The inputs of the model.                                                *)
(***************************************************************************)
MaxLen == 3

SeqsUpTo(S, n) == UNION {[1..k -> S] : k \in 0..n}

ColumnNamePool == {"id", "title"}

\* 1, -1, 2^53, 2^53 + 1, 2^53 + 3, i64::MAX and i64::MIN
I64Pool ==
  { I64(FALSE, SmallMag(1)), I64(TRUE, SmallMag(1)),
    I64(FALSE, Pow2Mag(53)), I64(FALSE, MagPlus(Pow2Mag(53), 1)),
    I64(TRUE, MagPlus(Pow2Mag(53), 3)),
    I64(FALSE, <<2^15 - 1, LimbBase - 1, LimbBase - 1, LimbBase - 1>>),
    I64(TRUE, Pow2Mag(63)) }

\* 1.5 and -0.25
F64Pool == { F64(FALSE, SmallMag(3), -1), F64(TRUE, SmallMag(1), -2) }

\* "a" and "b" as code points
StringPool == { <<97>>, <<98>> }

BytesPool == { <<0, 255>> }

ColumnValuePool ==
  {Null} \cup {Integer(i) : i \in I64Pool} \cup {Real(f) : f \in F64Pool}
         \cup {Text(s) : s \in StringPool} \cup {Blob(b) : b \in BytesPool}

(***************************************************************************)
(* Result<T, BearError> and the values of the query variables while no     *)
(* query runs.                                                             *)
(***************************************************************************)
Ok(x) == [tag |-> "ok", v |-> x]

Err(kind) == [tag |-> "err", kind |-> kind]

NoResult == [tag |-> "none"]

NoStmt == [column_names |-> <<>>, rows |-> <<>>]

QueryIdle ==
  /\ pc = "idle"
  /\ stmt = NoStmt
  /\ columns = <<>>
  /\ next_row = 0
  /\ result = NoResult

SeriesIdle ==
  /\ name = ""
  /\ values = <<>>
  /\ series = NoSeries

DbIdle ==
  /\ install = <<>>
  /\ database = <<>>
  /\ beardb = NoResult
  /\ query_result = NoResult

NoCall == [fn |-> "none"]

GatewayIdle ==
  /\ call = NoCall
  /\ at = "idle"
  /\ connections = <<>>
  /\ statement = NoStmt
  /\ prepared = <<>>
  /\ outcome = NoResult
  /\ trace = [opens |-> 0, discoveries |-> 0, generations |-> 0]

(***************************************************************************)
(* SpecSeries: build_series applied to every column buffer of the pool.    *)
(***************************************************************************)
InitSeries ==
  /\ name \in ColumnNamePool
  /\ values \in SeqsUpTo(ColumnValuePool, MaxLen)
  /\ series = NoSeries
  /\ QueryIdle
  /\ DbIdle
  /\ GatewayIdle

BuildSeries ==
  /\ series = NoSeries
  /\ series' = build_series(name, values)
  /\ UNCHANGED <<name, values, queryVars, dbVars, gatewayVars>>

NextSeries == BuildSeries

SpecSeries == InitSeries /\ [][NextSeries]_vars

(***************************************************************************)
(* What the engine hands to query_to_dataframe: a ValueRef per cell, or    *)
(* the error of row.get_ref.  A ValueRef::Text carries bytes.              *)
(***************************************************************************)
ReplacementChar == 65533

\* String::from_utf8_lossy on a byte string whose bytes are ASCII or 0xFF:
\* 0xFF occurs in no UTF-8 sequence, so each one becomes U+FFFD.
from_utf8_lossy(bytes) ==
  [j \in DOMAIN bytes |-> IF bytes[j] < 128 THEN bytes[j] ELSE ReplacementChar]

\* impl From<ValueRef> for ColumnValue
From(ref) ==
  IF ref.kind = "Text" THEN Text(from_utf8_lossy(ref.v)) ELSE ref

\* row.get_ref(i).map(ColumnValue::from).unwrap_or(ColumnValue::Null)
ColumnValueOf(got) == IF got.tag = "ok" THEN From(got.v) ELSE Null

\* the closure of query_map: one ColumnValue per column position
RowValues(row) == [i \in DOMAIN row |-> ColumnValueOf(row[i])]

\* DataFrame::new: the names must differ and the heights agree
DataFrame_new(cols) ==
  IF \E i, j \in DOMAIN cols : i < j /\ cols[i].name = cols[j].name
    THEN Err("PolarsError")
  ELSE IF \E i \in DOMAIN cols : Len(cols[i].data) # Len(cols[1].data)
    THEN Err("PolarsError")
  ELSE Ok(cols)

MaxCols == 2

MaxCells == 4

\* 1, 1.5, the bytes of "a" followed by 0xFF, a blob, NULL
ValueRefPool ==
  { Null, Integer(I64(FALSE, SmallMag(1))), Real(F64(FALSE, SmallMag(3), -1)),
    Text(<<97, 255>>), Blob(<<0, 255>>) }

GetRefPool == {Ok(ref) : ref \in ValueRefPool} \cup {Err("SqlError")}

\* the statements a query text can prepare to: result column names and the
\* rows the engine will yield
Statements ==
  UNION { [column_names : [1..c -> ColumnNamePool],
           rows : SeqsUpTo([1..c -> GetRefPool], MaxCells \div c)] : c \in 1..MaxCols }

(***************************************************************************)
(* query_to_dataframe (dataframe.rs:47-98), in three steps: prepare and    *)
(* query_map (51-78), one turn of the row loop (80-85), the build (87-97). *)
(***************************************************************************)
Return(r) ==
  /\ pc' = "done"
  /\ result' = r
  /\ columns' = <<>>

PrepareFails ==
  /\ pc = "start"
  /\ Return(Err("SqlError"))
  /\ UNCHANGED <<stmt, next_row, seriesVars, dbVars, gatewayVars>>

\* prepare succeeded and query_map could not bind (the text has parameters)
QueryMapFails ==
  /\ pc = "start"
  /\ \E c \in 1..MaxCols : \E names \in [1..c -> ColumnNamePool] :
       stmt' = [column_names |-> names, rows |-> <<>>]
  /\ Return(Err("SqlError"))
  /\ UNCHANGED <<next_row, seriesVars, dbVars, gatewayVars>>

Prepare ==
  /\ pc = "start"
  /\ \E st \in Statements :
       /\ stmt' = st
       /\ columns' = [i \in DOMAIN st.column_names |-> <<>>]
  /\ next_row' = 1
  /\ pc' = "rows"
  /\ UNCHANGED <<result, seriesVars, dbVars, gatewayVars>>

\* Variant of StepRow that pushes no cell for a NULL.
StepRow_skips_null ==
  /\ pc = "rows"
  /\ next_row <= Len(stmt.rows)
  /\ LET row_values == RowValues(stmt.rows[next_row])
     IN  columns' = [i \in DOMAIN columns |->
                       IF row_values[i] = Null THEN columns[i]
                       ELSE Append(columns[i], row_values[i])]
  /\ next_row' = next_row + 1
  /\ UNCHANGED <<pc, stmt, result, seriesVars, dbVars, gatewayVars>>

\* Variant of StepRow that hands each row's values to the columns in
\* reverse position.
StepRow_reversed ==
  /\ pc = "rows"
  /\ next_row <= Len(stmt.rows)
  /\ LET row_values == RowValues(stmt.rows[next_row])
         n == Len(row_values)
     IN  columns' = [i \in DOMAIN columns |-> Append(columns[i], row_values[n + 1 - i])]
  /\ next_row' = next_row + 1
  /\ UNCHANGED <<pc, stmt, result, seriesVars, dbVars, gatewayVars>>

StepRow ==
  /\ pc = "rows"
  /\ next_row <= Len(stmt.rows)
  /\ LET row_values == RowValues(stmt.rows[next_row])
     IN  columns' = [i \in DOMAIN columns |-> Append(columns[i], row_values[i])]
  /\ next_row' = next_row + 1
  /\ UNCHANGED <<pc, stmt, result, seriesVars, dbVars, gatewayVars>>

\* Variant of StepRowFails that returns the frame of the rows read so far.
StepRowFails_partial ==
  /\ pc = "rows"
  /\ Return(DataFrame_new([i \in DOMAIN columns |->
                             build_series(stmt.column_names[i], columns[i])]))
  /\ UNCHANGED <<stmt, next_row, seriesVars, dbVars, gatewayVars>>

\* the iterator yields Err instead of the next row or of the end of the rows
StepRowFails ==
  /\ pc = "rows"
  /\ Return(Err("SqlError"))
  /\ UNCHANGED <<stmt, next_row, seriesVars, dbVars, gatewayVars>>

Build ==
  /\ pc = "rows"
  /\ next_row > Len(stmt.rows)
  /\ Return(DataFrame_new([i \in DOMAIN columns |->
                             build_series(stmt.column_names[i], columns[i])]))
  /\ UNCHANGED <<stmt, next_row, seriesVars, dbVars, gatewayVars>>

InitQuery ==
  /\ SeriesIdle
  /\ DbIdle
  /\ GatewayIdle
  /\ pc = "start"
  /\ stmt = NoStmt
  /\ columns = <<>>
  /\ next_row = 0
  /\ result = NoResult

NextQuery ==
  PrepareFails \/ QueryMapFails \/ Prepare \/ StepRow \/ StepRowFails \/ Build

SpecQuery == InitQuery /\ [][NextQuery]_vars

(***************************************************************************)
(* Properties of build_series, checked under SpecSeries.                   *)
(***************************************************************************)
Built == series # NoSeries

\* the kinds present in the buffer, the absent one left out
Present(vs) == {vs[j].kind : j \in DOMAIN vs} \ {"Null"}

Priority == <<"Real", "Integer", "Text", "Blob">>

DtypeOf(kind) ==
  CASE kind = "Real" -> "Float64"
    [] kind = "Integer" -> "Int64"
    [] kind = "Text" -> "String"
    [] kind = "Blob" -> "Binary"

\* the kinds a column of the given type holds as values
Held(dtype) ==
  CASE dtype = "Float64" -> {"Real", "Integer"}
    [] dtype = "Int64" -> {"Integer"}
    [] dtype = "String" -> {"Text"}
    [] dtype = "Binary" -> {"Blob"}

\* C1: the column type is that of the first kind, in the order float,
\* integer, text, binary, that occurs in the buffer; it is a function of the
\* set of kinds present, whatever the order and the number of the cells.
C1_TypeIsFirstKindPresent ==
  (Built /\ Present(values) # {}) =>
    \E p \in 1..4 :
      /\ Priority[p] \in Present(values)
      /\ \A q \in 1..(p-1) : Priority[q] \notin Present(values)
      /\ series.dtype = DtypeOf(Priority[p])

C1_Witness ==
  /\ Built
  /\ Len(values) = 3
  /\ values[1].kind = "Blob" /\ values[2].kind = "Integer" /\ values[3].kind = "Real"
  /\ series.dtype = "Float64"

F64EqualsI64(f, i) == f.exp = 0 /\ f.mag = i.mag /\ f.neg = i.neg

\* the float is an integer of at most 53 significant bits no farther from i
\* than half the gap between two neighbouring such values
F64NearestToI64(f, i) ==
  LET d == BitLen(i.mag) - F64MantissaBits
  IN  /\ f.exp = 0 /\ f.neg = i.neg
      /\ IF d <= 0 THEN f.mag = i.mag
         ELSE /\ f.mag[4] % 2^d = 0
              /\ MagLeq(f.mag, MagPlus(i.mag, 2^(d-1)))
              /\ MagLeq(i.mag, MagPlus(f.mag, 2^(d-1)))

IntAndFloat == {"Real", "Integer"} \subseteq Present(values)

\* C3 as stated: in a column holding integers and floats every integer cell
\* yields a present float equal to that integer, every float cell is
\* unchanged and there is one entry per row.
C3_IntegersWidenedExactly ==
  (Built /\ IntAndFloat) =>
    /\ series.dtype = "Float64"
    /\ DOMAIN series.data = DOMAIN values
    /\ \A j \in DOMAIN values :
         /\ values[j].kind = "Real" => series.data[j] = Some(values[j].v)
         /\ values[j].kind = "Integer" =>
              series.data[j].some /\ F64EqualsI64(series.data[j].v, values[j].v)

\* C3 amended: in a column holding integers and floats every integer cell
\* yields a present float, which is that integer rounded to the nearest
\* double and so equal to it whenever its magnitude is at most 2^53; every
\* float cell is unchanged and there is one entry per row.
C3_IntegersWidenedToNearest ==
  (Built /\ IntAndFloat) =>
    /\ series.dtype = "Float64"
    /\ DOMAIN series.data = DOMAIN values
    /\ \A j \in DOMAIN values :
         /\ values[j].kind = "Real" => series.data[j] = Some(values[j].v)
         /\ values[j].kind = "Integer" =>
              /\ series.data[j].some
              /\ F64NearestToI64(series.data[j].v, values[j].v)
              /\ MagLeq(values[j].v.mag, Pow2Mag(53)) =>
                   F64EqualsI64(series.data[j].v, values[j].v)

C3_Witness ==
  /\ Built
  /\ Len(values) = 3
  /\ values[1] = Integer(I64(FALSE, <<2^15 - 1, LimbBase - 1, LimbBase - 1, LimbBase - 1>>))
  /\ values[2].kind = "Real"
  /\ values[3] = Integer(I64(FALSE, SmallMag(1)))
  /\ series.data[1] = Some(F64(FALSE, Pow2Mag(63), 0))
  /\ series.data[3] = Some(F64(FALSE, SmallMag(1), 0))

(***************************************************************************)
(* Properties of query_to_dataframe, checked under SpecQuery.              *)
(***************************************************************************)
Returned == pc = "done"

\* the engine failed: prepare, query_map or the step to a row returned Err
EngineFailed == result = Err("SqlError")

\* every cell the column was given reads as absent
AllAbsent(c) == \A r \in DOMAIN stmt.rows : ColumnValueOf(stmt.rows[r][c]) = Null

\* the kind of the cell as the engine holds it
KindRead(got) == IF got.tag = "ok" THEN got.v.kind ELSE "GetRefErr"

\* C4: a query that yields zero rows returns a frame, not an error, with the
\* statement's column names, no row and every column an all-absent String
\* column; and a column whose cells are all absent is a String column of
\* absent values, one per row.
C4_ZeroRowsGiveAllAbsentFrame ==
  (Returned /\ stmt # NoStmt /\ ~EngineFailed) =>
    /\ stmt.rows = <<>> =>
         /\ result.tag = "ok"
         /\ [c \in DOMAIN result.v |-> result.v[c].name] = stmt.column_names
         /\ \A c \in DOMAIN result.v :
              result.v[c].dtype = "String" /\ result.v[c].data = <<>>
    /\ result.tag = "ok" =>
         \A c \in DOMAIN result.v :
           AllAbsent(c) =>
             /\ result.v[c].dtype = "String"
             /\ result.v[c].data = [r \in DOMAIN stmt.rows |-> None]

\* the value d of a column of type dtype comes from the cell got: present
\* with the cell's payload when the column holds the cell's kind, absent
\* otherwise
DerivedFrom(d, dtype, got) ==
  IF KindRead(got) \in Held(dtype)
    THEN /\ d.some
         /\ CASE KindRead(got) = "Integer" /\ dtype = "Float64" ->
                   F64NearestToI64(d.v, got.v.v)
              [] KindRead(got) = "Text" -> d.v = from_utf8_lossy(got.v.v)
              [] OTHER -> d.v = got.v.v
    ELSE d = None

\* C5: the frame returned has the statement's columns, in its order and
\* under its names, and entry r of column c comes from the cell at column c
\* of the r-th row streamed.
C5_ColumnsAndRowsAligned ==
  result.tag = "ok" =>
    /\ DOMAIN result.v = DOMAIN stmt.column_names
    /\ \A c \in DOMAIN result.v :
         /\ result.v[c].name = stmt.column_names[c]
         /\ DOMAIN result.v[c].data = DOMAIN stmt.rows
         /\ \A r \in DOMAIN stmt.rows :
              DerivedFrom(result.v[c].data[r], result.v[c].dtype, stmt.rows[r][c])

C5_Witness ==
  /\ result.tag = "ok"
  /\ stmt.column_names = <<"id", "title">>
  /\ Len(stmt.rows) = 2
  /\ KindRead(stmt.rows[1][1]) = "Integer" /\ KindRead(stmt.rows[1][2]) = "Null"
  /\ KindRead(stmt.rows[2][1]) = "Null" /\ KindRead(stmt.rows[2][2]) = "Text"
  /\ result.v[1].dtype = "Int64" /\ result.v[1].data[1].some
  /\ result.v[2].dtype = "String" /\ result.v[2].data[2].some

\* C6: a frame is returned only once every row of the result set has been
\* read, and then each of its columns has one entry per row; an error comes
\* without a frame and with the buffers dropped; nothing is returned while
\* rows are still being read.
C6_WholeFrameOrError ==
  /\ result.tag = "ok" =>
       /\ Returned
       /\ next_row = Len(stmt.rows) + 1
       /\ DOMAIN result.v = DOMAIN stmt.column_names
       /\ \A c \in DOMAIN result.v : Len(result.v[c].data) = Len(stmt.rows)
  /\ result.tag = "err" =>
       /\ Returned
       /\ DOMAIN result = {"tag", "kind"}
       /\ columns = <<>>
  /\ ~Returned => result = NoResult

\* the step to the third row failed after two rows were buffered
C6_Witness ==
  /\ result = Err("SqlError")
  /\ next_row = 3
  /\ Len(stmt.rows) >= 3
  /\ columns = <<>>

\* C7: when the read of a cell of a row that was streamed raised an error,
\* the call returns an error; the failed read never ends as a value of a
\* frame.
C7_CellReadErrorPropagates ==
  (Returned /\ \E r \in 1..(next_row - 1) : \E c \in DOMAIN stmt.rows[r] :
                 stmt.rows[r][c].tag = "err")
    => result.tag = "err"

(***************************************************************************)
(* Names.  A table or column name is a sequence of characters, so that     *)
(* GLOB and ends_with work on it as they do on the text.                   *)
(***************************************************************************)
DigitChars == <<"0", "1", "2", "3", "4", "5", "6", "7", "8", "9">>

IsDigit(ch) == \E d \in DOMAIN DigitChars : DigitChars[d] = ch

\* the decimal form of a version number
RECURSIVE Digits(_)
Digits(n) ==
  IF n < 10 THEN <<DigitChars[n + 1]>>
  ELSE Digits(n \div 10) \o <<DigitChars[(n % 10) + 1]>>

Z_ == <<"Z", "_">>

TAGS == <<"T", "A", "G", "S">>

NOTES == <<"N", "O", "T", "E", "S">>

ZSFNOTE == <<"Z", "S", "F", "N", "O", "T", "E">>

ZSFNOTETAG == ZSFNOTE \o <<"T", "A", "G">>

ZSFNOTEBACKLINK == ZSFNOTE \o <<"B", "A", "C", "K", "L", "I", "N", "K">>

Z_PK == <<"Z", "_", "P", "K">>

\* str::ends_with
ends_with(nm, suffix) ==
  /\ Len(nm) >= Len(suffix)
  /\ SubSeq(nm, Len(nm) - Len(suffix) + 1, Len(nm)) = suffix

(***************************************************************************)
(* SQLite's GLOB.  A pattern is a sequence of elements: a literal          *)
(* character, a character class, or the star that matches any run of       *)
(* characters, the empty one included.  The underscore is a literal.       *)
(***************************************************************************)
Lit(ch) == [k |-> "lit", ch |-> ch]

DigitClass == [k |-> "digit"]

Star == [k |-> "star"]


RECURSIVE Glob(_, _)
Glob(pat, text) ==
  IF pat = <<>> THEN text = <<>>
  ELSE IF Head(pat).k = "star" THEN
    \/ Glob(Tail(pat), text)
    \/ text # <<>> /\ Glob(pat, Tail(text))
  ELSE
    /\ text # <<>>
    /\ IF Head(pat).k = "digit" THEN IsDigit(Head(text))
       ELSE IF Head(pat).k = "any" THEN TRUE
       ELSE Head(pat).ch = Head(text)
    /\ Glob(Tail(pat), Tail(text))

\* Variant of JunctionGlob that takes one digit and no more: 'Z_[0-9]TAGS'.
JunctionGlob_one_digit ==
  <<Lit("Z"), Lit("_"), DigitClass, Lit("T"), Lit("A"), Lit("G"), Lit("S")>>

\* 'Z_[0-9]*TAGS'
JunctionGlob ==
  <<Lit("Z"), Lit("_"), DigitClass, Star, Lit("T"), Lit("A"), Lit("G"), Lit("S")>>

(***************************************************************************)
(* BearError::SqlError with the rusqlite error it wraps.                   *)
(***************************************************************************)
SqlErr(source) == [tag |-> "err", kind |-> "SqlError", source |-> source]

(***************************************************************************)
(* schema.rs: find_junction_table, discover_metadata.                      *)
(* A database is the sequence of its tables as sqlite_master lists them.   *)
(***************************************************************************)
Table(nm, cols, rows) == [name |-> nm, columns |-> cols, rows |-> rows]

\* SELECT name FROM sqlite_master WHERE type = 'table' AND name GLOB .. LIMIT 1
find_junction_table(conn) ==
  LET hits == {t \in DOMAIN conn : Glob(JunctionGlob, conn[t].name)}
  IN  IF hits = {} THEN SqlErr("QueryReturnedNoRows")
      ELSE Ok(conn[CHOOSE t \in hits : \A u \in hits : t <= u].name)

\* PRAGMA table_info(<name>): the column names, none for an unknown table
table_info(conn, nm) ==
  LET hits == {t \in DOMAIN conn : conn[t].name = nm}
  IN  IF hits = {} THEN <<>> ELSE conn[CHOOSE t \in hits : \A u \in hits : t <= u].columns

\* Variant of find_column that takes the first column whatever its name.
find_column_first(cols, suffix) ==
  IF cols = <<>> THEN SqlErr("QueryReturnedNoRows") ELSE Ok(cols[1])

\* columns.iter().find(|name| name.ends_with(suffix)).ok_or_else(..)
find_column(cols, suffix) ==
  LET hits == {c \in DOMAIN cols : ends_with(cols[c], suffix)}
  IN  IF hits = {} THEN SqlErr("QueryReturnedNoRows")
      ELSE Ok(cols[CHOOSE c \in hits : \A d \in hits : c <= d])

BearDbMetadata(table, notes, tags) ==
  [junction_table_name |-> table,
   junction_notes_column |-> notes,
   junction_tags_column |-> tags]

discover_metadata(conn) ==
  LET junction_table_name == find_junction_table(conn)
  IN  IF junction_table_name.tag = "err" THEN junction_table_name
      ELSE
        LET cols == table_info(conn, junction_table_name.v)
            junction_notes_column == find_column(cols, NOTES)
            junction_tags_column == find_column(cols, TAGS)
        IN  IF junction_notes_column.tag = "err" THEN junction_notes_column
            ELSE IF junction_tags_column.tag = "err" THEN junction_tags_column
            ELSE Ok(BearDbMetadata(junction_table_name.v,
                                   junction_notes_column.v,
                                   junction_tags_column.v))

(***************************************************************************)
(* schema.rs: generate_normalizing_cte.  A query text is a sequence of     *)
(* pieces, literal text or an identifier spliced in by format!.  The names *)
(* of the model are made of letters, digits and the underscore, so a       *)
(* spliced name reads back as the one identifier it was.                   *)
(***************************************************************************)
SqlText(txt) == [k |-> "text", txt |-> txt]

Ident(nm) == [k |-> "ident", nm |-> nm]

Hole == [k |-> "hole"]

\* format!: the i-th {} takes the i-th argument
format(template, args) ==
  [j \in DOMAIN template |->
     IF template[j].k = "hole"
       THEN Ident(args[Cardinality({i \in 1..j : template[i].k = "hole"})])
       ELSE template[j]]

CteTemplate ==
  << SqlText("WITH core_data AS (SELECT unixepoch('2001-01-01') as epoch), notes AS (SELECT n.Z_PK as id, n.ZUNIQUEIDENTIFIER as unique_id, n.ZTITLE as title, n.ZTEXT as content, datetime(n.ZMODIFICATIONDATE + cd.epoch, 'unixepoch') as modified, datetime(n.ZCREATIONDATE + cd.epoch, 'unixepoch') as created, n.ZPINNED as is_pinned, n.ZTRASHED as is_trashed, n.ZARCHIVED as is_archived FROM ZSFNOTE as n, core_data as cd), tags AS (SELECT t.Z_PK as id, t.ZTITLE as name, datetime(t.ZMODIFICATIONDATE + cd.epoch, 'unixepoch') as modified FROM ZSFNOTETAG as t, core_data as cd), note_tags AS (SELECT nt."),
     Hole,
     SqlText(" as note_id, nt."),
     Hole,
     SqlText(" as tag_id FROM "),
     Hole,
     SqlText(" as nt), note_links AS (SELECT nl.ZLINKEDBY as from_note_id, nl.ZLINKINGTO as to_note_id FROM ZSFNOTEBACKLINK as nl)") >>

\* Variant of generate_normalizing_cte with the two column arguments exchanged.
generate_normalizing_cte_swapped(metadata) ==
  format(CteTemplate, << metadata.junction_tags_column,
                         metadata.junction_notes_column,
                         metadata.junction_table_name >>)

\* Variant of generate_normalizing_cte that writes the junction table name
\* of the test schema whatever the metadata.
generate_normalizing_cte_z5(metadata) ==
  format(CteTemplate, << metadata.junction_notes_column,
                         metadata.junction_tags_column,
                         <<"Z", "_", "5", "T", "A", "G", "S">> >>)

generate_normalizing_cte(metadata) ==
  format(CteTemplate, << metadata.junction_notes_column,
                         metadata.junction_tags_column,
                         metadata.junction_table_name >>)

(***************************************************************************)
(* The date and time functions of the engine the view block calls:         *)
(* unixepoch('2001-01-01') and datetime(x, 'unixepoch').  Days are counted *)
(* in the proleptic Gregorian calendar.                                    *)
(***************************************************************************)
days_from_civil(y, m, d) ==
  LET yy == IF m <= 2 THEN y - 1 ELSE y
      era == yy \div 400
      yoe == yy - era * 400
      mp == IF m > 2 THEN m - 3 ELSE m + 9
      doy == (153 * mp + 2) \div 5 + d - 1
      doe == yoe * 365 + yoe \div 4 - yoe \div 100 + doy
  IN  era * 146097 + doe - 719468

\* Variant of unixepoch that counts from the day itself.
unixepoch_zero(y, m, d) == 0

\* unixepoch('YYYY-MM-DD'): the seconds from 1970-01-01 to that day
unixepoch(y, m, d) == days_from_civil(y, m, d) * 86400

\* datetime(secs, 'unixepoch'): 'YYYY-MM-DD HH:MM:SS' of a count of seconds
\* from 1970-01-01, the digits as the characters of a text
datetime(secs) ==
  LET civil_from_days(days) ==
        LET z == days + 719468
            era == z \div 146097
            doe == z - era * 146097
            yoe == (doe - doe \div 1460 + doe \div 36524 - doe \div 146096) \div 365
            doy == doe - (365 * yoe + yoe \div 4 - yoe \div 100)
            mp == (5 * doy + 2) \div 153
            m == IF mp < 10 THEN mp + 3 ELSE mp - 9
        IN  [y |-> yoe + era * 400 + (IF m <= 2 THEN 1 ELSE 0),
             m |-> m,
             d |-> doy - (153 * mp + 2) \div 5 + 1]
      TwoDigits(n) == <<48 + (n \div 10), 48 + (n % 10)>>
      DateTimeText(date, rem) ==
        TwoDigits(date.y \div 100) \o TwoDigits(date.y % 100)
          \o <<45>> \o TwoDigits(date.m) \o <<45>> \o TwoDigits(date.d)
          \o <<32>> \o TwoDigits(rem \div 3600) \o <<58>> \o TwoDigits((rem % 3600) \div 60)
          \o <<58>> \o TwoDigits(rem % 60)
  IN  DateTimeText(civil_from_days(secs \div 86400), secs % 86400)

\* a number under 2^31 as a magnitude
MagOfNat(n) == <<0, 0, n \div LimbBase, n % LimbBase>>

\* the whole seconds of stored + epoch.  The engine rounds the sum to the
\* millisecond and prints the seconds without their fraction; a fraction
\* written on ten binary digits or fewer stays under 0.9995, so the seconds
\* printed are the floor of the sum.
WholeSeconds(stored, epoch) ==
  LET NatOfMag(mag) == mag[3] * LimbBase + mag[4]
      n == IF stored.v.neg THEN 0 - NatOfMag(stored.v.mag) ELSE NatOfMag(stored.v.mag)
  IN  IF stored.kind = "Integer" THEN n + epoch
      ELSE IF stored.v.exp >= 0 THEN n * 2^(stored.v.exp) + epoch
      ELSE (n \div 2^(0 - stored.v.exp)) + epoch

\* datetime(stored + cd.epoch, 'unixepoch'): NULL stays NULL
datetime_unixepoch(stored, epoch) ==
  IF stored.kind \in {"Integer", "Real"} THEN Text(datetime(WholeSeconds(stored, epoch)))
  ELSE Null

(***************************************************************************)
(* The tables of Bear's database and the relations the view block defines  *)
(* over them (schema.rs:137-172).                                          *)
(***************************************************************************)
\* the columns of Bear's tables the block reads, besides Z_PK: Z.TITLE is
\* ZTITLE, and so on
Z ==
  [UNIQUEIDENTIFIER |-> <<"Z", "U", "N", "I", "Q", "U", "E", "I", "D", "E", "N", "T", "I",
                          "F", "I", "E", "R">>,
   TITLE |-> <<"Z", "T", "I", "T", "L", "E">>,
   TEXT |-> <<"Z", "T", "E", "X", "T">>,
   MODIFICATIONDATE |-> <<"Z", "M", "O", "D", "I", "F", "I", "C", "A", "T", "I", "O", "N",
                          "D", "A", "T", "E">>,
   CREATIONDATE |-> <<"Z", "C", "R", "E", "A", "T", "I", "O", "N", "D", "A", "T", "E">>,
   PINNED |-> <<"Z", "P", "I", "N", "N", "E", "D">>,
   TRASHED |-> <<"Z", "T", "R", "A", "S", "H", "E", "D">>,
   ARCHIVED |-> <<"Z", "A", "R", "C", "H", "I", "V", "E", "D">>,
   LINKEDBY |-> <<"Z", "L", "I", "N", "K", "E", "D", "B", "Y">>,
   LINKINGTO |-> <<"Z", "L", "I", "N", "K", "I", "N", "G", "T", "O">>]

\* the first table of that name
TableNamed(conn, nm) ==
  conn[CHOOSE t \in DOMAIN conn :
         conn[t].name = nm /\ \A u \in DOMAIN conn : conn[u].name = nm => t <= u]

\* the cell of a row of a table in the column of that name
Cell(table, r, nm) ==
  table.rows[r][CHOOSE c \in DOMAIN table.columns : table.columns[c] = nm]

\* the columns each relation of the view block exposes, in order
ViewColumns ==
  [notes |-> <<"id", "unique_id", "title", "content", "modified", "created",
               "is_pinned", "is_trashed", "is_archived">>,
   tags |-> <<"id", "name", "modified">>,
   note_tags |-> <<"note_id", "tag_id">>,
   note_links |-> <<"from_note_id", "to_note_id">>]

\* the table and the columns a relation of the block reads
ViewSource(block, rel) ==
  CASE rel = "notes" ->
         [table |-> ZSFNOTE,
          columns |-> {Z_PK, Z.UNIQUEIDENTIFIER, Z.TITLE, Z.TEXT, Z.MODIFICATIONDATE,
                       Z.CREATIONDATE, Z.PINNED, Z.TRASHED, Z.ARCHIVED}]
    [] rel = "tags" ->
         [table |-> ZSFNOTETAG, columns |-> {Z_PK, Z.TITLE, Z.MODIFICATIONDATE}]
    [] rel = "note_tags" ->
         [table |-> block[6].nm, columns |-> {block[2].nm, block[4].nm}]
    [] rel = "note_links" ->
         [table |-> ZSFNOTEBACKLINK, columns |-> {Z.LINKEDBY, Z.LINKINGTO}]

\* the engine can resolve the relation: its table exists with the columns
Resolves(conn, block, rel) ==
  LET HasColumns(table, cols) ==
        \A c \in cols : \E i \in DOMAIN table.columns : table.columns[i] = c
  IN  /\ \E t \in DOMAIN conn : conn[t].name = ViewSource(block, rel).table
      /\ HasColumns(TableNamed(conn, ViewSource(block, rel).table),
                    ViewSource(block, rel).columns)

\* the rows of a relation over its table t, one record per row, in table
\* order: the SELECT list of the relation in the block
View(rel, t, block, epoch) ==
  [r \in DOMAIN t.rows |->
     CASE rel = "notes" ->
            [id |-> Cell(t, r, Z_PK),
             unique_id |-> Cell(t, r, Z.UNIQUEIDENTIFIER),
             title |-> Cell(t, r, Z.TITLE),
             content |-> Cell(t, r, Z.TEXT),
             modified |-> datetime_unixepoch(Cell(t, r, Z.MODIFICATIONDATE), epoch),
             created |-> datetime_unixepoch(Cell(t, r, Z.CREATIONDATE), epoch),
             is_pinned |-> Cell(t, r, Z.PINNED),
             is_trashed |-> Cell(t, r, Z.TRASHED),
             is_archived |-> Cell(t, r, Z.ARCHIVED)]
       [] rel = "tags" ->
            [id |-> Cell(t, r, Z_PK),
             name |-> Cell(t, r, Z.TITLE),
             modified |-> datetime_unixepoch(Cell(t, r, Z.MODIFICATIONDATE), epoch)]
       [] rel = "note_tags" ->
            [note_id |-> Cell(t, r, block[2].nm), tag_id |-> Cell(t, r, block[4].nm)]
       [] rel = "note_links" ->
            [from_note_id |-> Cell(t, r, Z.LINKEDBY), to_note_id |-> Cell(t, r, Z.LINKINGTO)]]

\* the rows of a relation of the block; core_data holds the one row
\* SELECT unixepoch('2001-01-01') as epoch
ViewRows(conn, block, rel) ==
  View(rel, TableNamed(conn, ViewSource(block, rel).table), block, unixepoch(2001, 1, 1))

(***************************************************************************)
(* The caller's query texts.  A SELECT over the relations of the view      *)
(* block is kept as its parts: the result columns, the relation read, the  *)
(* relation joined to it, the conditions, the sort key and the limit.      *)
(***************************************************************************)
Col(rel, nm) == [rel |-> rel, col |-> nm]

\* one comparison of a WHERE clause; a test with a ? reads the bound
\* parameter of that position
Atom(col, test, param) == [col |-> col, test |-> test, param |-> param]

OrderBy(col, desc) == [col |-> col, desc |-> desc]

\* join: at most one [rel, left, right], for INNER JOIN rel ON left = right;
\* where: a conjunction of disjunctions of comparisons
Select(cols, rel, join, where, order, limit) ==
  [k |-> "select", columns |-> cols, from |-> rel, join |-> join,
   where |-> where, order |-> order, limit |-> limit]

\* SELECT <cols> FROM <rel>
SelectFrom(rel, cols) ==
  Select([i \in DOMAIN cols |-> Col(rel, cols[i])], rel, <<>>, <<>>, <<>>, None)

(***************************************************************************)
(* The engine's evaluation of a SELECT: the rows of the relation (joined   *)
(* row by row to the other relation), filtered, sorted, cut at the limit   *)
(* and projected on the result columns.                                    *)
(***************************************************************************)
\* the value of a run of decimal digits
RECURSIVE DecimalValue(_)
DecimalValue(s) ==
  IF s = <<>> THEN 0 ELSE 10 * DecimalValue(SubSeq(s, 1, Len(s) - 1)) + (s[Len(s)] - 48)

\* a = b for a column of INTEGER affinity: never true of NULL.  A text is
\* taken as a number when it is a short run of decimal digits (the texts of
\* the model carry no sign, blank or fraction)
SqlEquals(a, b) ==
  LET NumericAffinity(v) ==
        IF /\ v.kind = "Text"
           /\ v.v # <<>>
           /\ Len(v.v) <= 4
           /\ \A i \in DOMAIN v.v : v.v[i] >= 48 /\ v.v[i] <= 57
          THEN Integer(I64(FALSE, MagOfNat(DecimalValue(v.v))))
        ELSE v
  IN  /\ a.kind # "Null"
      /\ b.kind # "Null"
      /\ NumericAffinity(a).kind = NumericAffinity(b).kind
      /\ NumericAffinity(a).v = NumericAffinity(b).v

\* one comparison on a value.  The pattern bound by search: % and _ are the
\* wildcards of LIKE, which folds ASCII case; * and ? those of GLOB (a
\* bracket opens a class in GLOB; the search strings of the model have none).
\* A parameter not bound is NULL.
Holds(atom, value, params) ==
  LET Param == IF atom.param \in DOMAIN params THEN params[atom.param] ELSE Null
      Lower(cp) == IF cp >= 65 /\ cp <= 90 THEN cp + 32 ELSE cp
      LikePattern(s) ==
        [i \in DOMAIN s |->
           IF s[i] = 37 THEN Star ELSE IF s[i] = 95 THEN [k |-> "any"] ELSE Lit(Lower(s[i]))]
      GlobPattern(s) ==
        [i \in DOMAIN s |->
           IF s[i] = 42 THEN Star ELSE IF s[i] = 63 THEN [k |-> "any"] ELSE Lit(s[i])]
  IN  CASE atom.test = "<> 1" ->
             value.kind # "Null" /\ ~SqlEquals(value, Integer(I64(FALSE, SmallMag(1))))
        [] atom.test = "= ?" -> SqlEquals(value, Param)
        [] atom.test = "LIKE ?" ->
             /\ value.kind = "Text"
             /\ Param.kind = "Text"
             /\ Glob(LikePattern(Param.v), [i \in DOMAIN value.v |-> Lower(value.v[i])])
        [] atom.test = "GLOB ?" ->
             /\ value.kind = "Text"
             /\ Param.kind = "Text"
             /\ Glob(GlobPattern(Param.v), value.v)

\* the rows of FROM and JOIN: one row of each relation, as a function of
\* the relation name, in nested-loop order, kept when the ON columns agree
JoinedRows(conn, block, sel) ==
  LET FromRows(outer) == [r \in DOMAIN outer |-> (sel.from :> outer[r])]
      JoinRows(outer, j, inner) ==
        LET agree(row) ==
              SqlEquals(row[j.left.rel][j.left.col], row[j.right.rel][j.right.col])
        IN  SelectSeq([p \in 1..(Len(outer) * Len(inner)) |->
                         (sel.from :> outer[((p - 1) \div Len(inner)) + 1])
                           @@ (j.rel :> inner[((p - 1) % Len(inner)) + 1])],
                      agree)
  IN  IF sel.join = <<>> THEN FromRows(ViewRows(conn, block, sel.from))
      ELSE JoinRows(ViewRows(conn, block, sel.from), sel.join[1],
                    ViewRows(conn, block, sel.join[1].rel))

\* ORDER BY on a key of texts or NULL, NULL first; rows of equal keys stay
\* in the order they were read
Sorted(rows, order) ==
  IF order = <<>> THEN rows
  ELSE
    LET TextLess(s, t) ==
          \E i \in 1..(Len(t)) :
            /\ \A j \in 1..(i - 1) : j <= Len(s) /\ s[j] = t[j]
            /\ (i > Len(s) \/ s[i] < t[i])
        SqlLess(a, b) ==
          \/ a.kind = "Null" /\ b.kind # "Null"
          \/ a.kind = "Text" /\ b.kind = "Text" /\ TextLess(a.v, b.v)
        key(i) == rows[i][order[1].col.rel][order[1].col.col]
        before(i, j) ==
          \/ IF order[1].desc THEN SqlLess(key(j), key(i)) ELSE SqlLess(key(i), key(j))
          \/ /\ ~SqlLess(key(i), key(j))
             /\ ~SqlLess(key(j), key(i))
             /\ i < j
        rank(i) == Cardinality({j \in DOMAIN rows : before(j, i)}) + 1
    IN  [p \in DOMAIN rows |-> rows[CHOOSE i \in DOMAIN rows : rank(i) = p]]

\* the rows a statement yields with these parameters bound: the rows of
\* FROM and JOIN that pass WHERE (every disjunction has a comparison that
\* holds), sorted, cut at LIMIT, and their result columns, each cell as
\* get_ref reads it
Rows(sel, source, params) ==
  LET passes(row) ==
        \A i \in DOMAIN sel.where :
          \E j \in DOMAIN sel.where[i] :
            Holds(sel.where[i][j], row[sel.where[i][j].col.rel][sel.where[i][j].col.col],
                  params)
      Limited(rows) ==
        IF sel.limit.some /\ sel.limit.v < Len(rows) THEN SubSeq(rows, 1, sel.limit.v)
        ELSE rows
      Projected(rows) ==
        [r \in DOMAIN rows |->
           [c \in DOMAIN sel.columns |->
              Ok(rows[r][sel.columns[c].rel][sel.columns[c].col])]]
  IN  Projected(Limited(Sorted(SelectSeq(source, passes), sel.order)))

(***************************************************************************)
(* models.rs: the row decoders of the typed accessors.  Row::get looks the *)
(* column up by name in the statement and converts the cell with FromSql.  *)
(***************************************************************************)
\* the first error of a run of results, or the values of all of them
FirstErr(results) ==
  IF \E i \in DOMAIN results : results[i].tag = "err"
    THEN results[CHOOSE i \in DOMAIN results :
                   results[i].tag = "err" /\ \A j \in 1..(i - 1) : results[j].tag = "ok"]
  ELSE Ok([i \in DOMAIN results |-> results[i].v])

IsDateTimeText(s) ==
  /\ Len(s) = 19
  /\ s[5] = 45 /\ s[8] = 45 /\ s[11] = 32 /\ s[14] = 58 /\ s[17] = 58
  /\ \A i \in (1..19) \ {5, 8, 11, 14, 17} : s[i] >= 48 /\ s[i] <= 57

\* the seconds from 1970-01-01 a text 'YYYY-MM-DD HH:MM:SS' names
ParseDateTime(s) ==
  days_from_civil(DecimalValue(SubSeq(s, 1, 4)),
                  DecimalValue(SubSeq(s, 6, 7)),
                  DecimalValue(SubSeq(s, 9, 10))) * 86400
    + DecimalValue(SubSeq(s, 12, 13)) * 3600
    + DecimalValue(SubSeq(s, 15, 16)) * 60
    + DecimalValue(SubSeq(s, 18, 19))

\* FromSql::column_result for the type asked.  i64: an integer cell; bool:
\* an integer cell, true when not zero; String: a text cell of valid UTF-8;
\* OffsetDateTime: a text cell holding a date and time, taken as UTC;
\* Option<T>: NULL is None
column_result(v, type) ==
  LET column_string ==
        IF v.kind # "Text" THEN SqlErr("InvalidColumnType")
        ELSE IF \E i \in DOMAIN v.v : v.v[i] >= 128 THEN SqlErr("Utf8Error")
        ELSE Ok(v.v)
      column_datetime ==
        IF v.kind # "Text" THEN SqlErr("InvalidColumnType")
        ELSE IF ~IsDateTimeText(v.v) THEN SqlErr("FromSqlConversionFailure")
        ELSE Ok(ParseDateTime(v.v))
      column_option(inner) ==
        IF v.kind = "Null" THEN Ok(None)
        ELSE IF inner.tag = "err" THEN inner
        ELSE Ok(Some(inner.v))
  IN  CASE type = "i64" ->
             IF v.kind = "Integer" THEN Ok(v.v) ELSE SqlErr("InvalidColumnType")
        [] type = "bool" ->
             IF v.kind = "Integer" THEN Ok(v.v.mag # SmallMag(0))
             ELSE SqlErr("InvalidColumnType")
        [] type = "String" -> column_string
        [] type = "OffsetDateTime" -> column_datetime
        [] type = "Option<String>" -> column_option(column_string)
        [] type = "Option<OffsetDateTime>" -> column_option(column_datetime)

\* row.get::<T>(name)?: the cell of the first result column of that name,
\* converted
get_as(names, row, nm, type) ==
  IF \E i \in DOMAIN names : names[i] = nm
    THEN column_result(row[CHOOSE i \in DOMAIN names :
                             names[i] = nm /\ \A j \in 1..(i - 1) : names[j] # nm].v,
                       type)
  ELSE SqlErr("InvalidColumnName")

tag_from_row(names, row) ==
  LET Tag(fields) ==
        IF fields.tag = "err" THEN fields
        ELSE Ok([id |-> fields.v[1], name |-> fields.v[2], modified |-> fields.v[3]])
  IN  Tag(FirstErr(<< get_as(names, row, "id", "i64"),
                      get_as(names, row, "name", "Option<String>"),
                      get_as(names, row, "modified", "Option<OffsetDateTime>") >>))

note_from_row(names, row) ==
  LET Note(fields) ==
        IF fields.tag = "err" THEN fields
        ELSE Ok([_core_db_id |-> fields.v[1], id |-> fields.v[2], title |-> fields.v[3],
                 content |-> fields.v[4], created |-> fields.v[5],
                 modified |-> fields.v[6], is_pinned |-> fields.v[7]])
  IN  Note(FirstErr(<< get_as(names, row, "id", "i64"),
                       get_as(names, row, "unique_id", "String"),
                       get_as(names, row, "title", "String"),
                       get_as(names, row, "content", "Option<String>"),
                       get_as(names, row, "created", "OffsetDateTime"),
                       get_as(names, row, "modified", "OffsetDateTime"),
                       get_as(names, row, "is_pinned", "bool") >>))

(***************************************************************************)
(* lib.rs: the options of notes and search, and the text and parameters    *)
(* each operation hands to the engine.                                     *)
(***************************************************************************)
NotesQuery(limit, include_trashed, include_archived) ==
  [limit |-> limit, include_trashed |-> include_trashed,
   include_archived |-> include_archived]

SearchQuery(query, search_title, search_content, case_sensitive, limit, sort_by, include_trashed, include_archived) ==
  [query |-> query, search_title |-> search_title, search_content |-> search_content,
   case_sensitive |-> case_sensitive, limit |-> limit, sort_by |-> sort_by,
   include_trashed |-> include_trashed, include_archived |-> include_archived]

\* the text an operation hands to Queryable::prepare.  NoteColumns: the
\* columns every accessor that returns notes selects; Filters: is_trashed <> 1
\* and is_archived <> 1, each unless its flag is set; SearchConditions:
\* title <op> ? OR content <op> ?, the fields searched only
sql_of(c) ==
  LET NoteColumns ==
        << Col("notes", "id"), Col("notes", "core_db_id"), Col("notes", "title"),
           Col("notes", "content"), Col("notes", "modified"), Col("notes", "created"),
           Col("notes", "is_pinned") >>
      Filters(include_trashed, include_archived) ==
        (IF include_trashed THEN <<>>
         ELSE << <<Atom(Col("notes", "is_trashed"), "<> 1", 0)>> >>)
          \o (IF include_archived THEN <<>>
              ELSE << <<Atom(Col("notes", "is_archived"), "<> 1", 0)>> >>)
      SearchConditions(search, op) ==
        (IF search.search_title THEN <<Atom(Col("notes", "title"), op, 1)>> ELSE <<>>)
          \o (IF search.search_content
                THEN <<Atom(Col("notes", "content"), op,
                            IF search.search_title THEN 2 ELSE 1)>>
              ELSE <<>>)
  IN  CASE c.fn = "tags" ->
             Select(<<Col("tags", "id"), Col("tags", "name"), Col("tags", "modified")>>,
                    "tags", <<>>, <<>>, <<OrderBy(Col("tags", "name"), FALSE)>>, None)
        [] c.fn = "get_note_by_id" ->
             Select(NoteColumns, "notes", <<>>,
                    << <<Atom(Col("notes", "id"), "= ?", 1)>> >>, <<>>, None)
        [] c.fn = "notes" ->
             Select(NoteColumns, "notes", <<>>,
                    Filters(c.query.include_trashed, c.query.include_archived),
                    <<OrderBy(Col("notes", "modified"), TRUE)>>, c.query.limit)
        [] c.fn = "search" ->
             Select(NoteColumns, "notes", <<>>,
                    <<SearchConditions(c.search,
                                       IF c.search.case_sensitive THEN "GLOB ?"
                                       ELSE "LIKE ?")>>
                      \o Filters(c.search.include_trashed, c.search.include_archived),
                    <<c.search.sort_by>>, c.search.limit)
        [] c.fn = "note_links" ->
             Select(NoteColumns, "notes",
                    <<[rel |-> "note_links", left |-> Col("note_links", "to_note_id"),
                       right |-> Col("notes", "id")]>>,
                    << <<Atom(Col("notes", "is_trashed"), "<> 1", 0)>>,
                       <<Atom(Col("notes", "is_archived"), "<> 1", 0)>>,
                       <<Atom(Col("note_links", "from_note_id"), "= ?", 1)>> >>,
                    <<OrderBy(Col("notes", "modified"), TRUE)>>, None)
        [] c.fn = "note_tags" ->
             Select(<<Col("note_tags", "tag_id")>>, "note_tags", <<>>,
                    << <<Atom(Col("note_tags", "note_id"), "= ?", 1)>> >>, <<>>, None)
        [] c.fn = "query" -> c.sql

\* the parameters an accessor binds
params_of(c) ==
  CASE c.fn = "get_note_by_id" -> <<Text(c.id)>>
    [] c.fn = "note_links" -> <<Text(c.from)>>
    [] c.fn = "note_tags" -> <<Text(c.from)>>
    [] c.fn = "search" ->
         LET pattern == IF c.search.case_sensitive THEN <<42>> \o c.search.query \o <<42>>
                        ELSE <<37>> \o c.search.query \o <<37>>
         IN  IF c.search.search_title /\ c.search.search_content
               THEN <<Text(pattern), Text(pattern)>>
             ELSE <<Text(pattern)>>
    [] OTHER -> <<>>

(***************************************************************************)
(* lib.rs: Queryable and BearDb.                                           *)
(***************************************************************************)
Queryable_new(conn, normalizing_cte) ==
  [conn |-> conn, normalizing_cte |-> normalizing_cte]

SelectNoteTags == << SqlText("SELECT note_id, tag_id FROM note_tags") >>

\* Connection::prepare of the view block, a line break and one query text.
\* The engine resolves the relations the query reads, through the block, to
\* the tables of the database, and every column the query names to a column
\* of its relation; it does not run the query.
compile(conn, block, user) ==
  LET RelationsOf(sel) == {sel.from} \cup {sel.join[j].rel : j \in DOMAIN sel.join}
      ColumnsNamed(sel) ==
        {sel.columns[i] : i \in DOMAIN sel.columns}
          \cup {sel.join[j].left : j \in DOMAIN sel.join}
          \cup {sel.join[j].right : j \in DOMAIN sel.join}
          \cup UNION {{sel.where[i][j].col : j \in DOMAIN sel.where[i]} :
                        i \in DOMAIN sel.where}
          \cup {sel.order[j].col : j \in DOMAIN sel.order}
      \* the statement of a SELECT: its result columns, its rows of FROM and
      \* JOIN, and the rows it yields when nothing is bound
      Statement(sel, source) ==
        [column_names |-> [i \in DOMAIN sel.columns |-> sel.columns[i].col],
         rows |-> Rows(sel, source, <<>>),
         select |-> sel,
         source |-> source]
      Compiled(sel) ==
        IF /\ \A rel \in RelationsOf(sel) :
                rel \in DOMAIN ViewColumns /\ Resolves(conn, block, rel)
           /\ \A c \in ColumnsNamed(sel) :
                /\ c.rel \in RelationsOf(sel)
                /\ \E i \in DOMAIN ViewColumns[c.rel] : ViewColumns[c.rel][i] = c.col
          THEN Ok(Statement(sel, JoinedRows(conn, block, sel)))
        ELSE SqlErr("SqlInputError")
  IN  CASE <<user>> = SelectNoteTags ->
             Compiled(SelectFrom("note_tags", <<"note_id", "tag_id">>))
        [] user.k = "select" -> Compiled(user)
        [] OTHER -> SqlErr("SqlInputError")

\* Connection::prepare: the text must be the view block, a line break and
\* one query
sqlite_prepare(conn, full) ==
  IF \/ Len(full) # Len(CteTemplate) + 2
     \/ \E j \in DOMAIN CteTemplate :
          IF CteTemplate[j].k = "hole" THEN full[j].k # "ident"
                                       ELSE full[j] # CteTemplate[j]
     \/ full[Len(CteTemplate) + 1] # SqlText("\n")
    THEN SqlErr("SqlInputError")
  ELSE compile(conn, SubSeq(full, 1, Len(CteTemplate)), full[Len(full)])

\* Variant of full_sql that puts the caller's text first.
full_sql_user_first(queryable, user_sql) ==
  user_sql \o <<SqlText("\n")>> \o queryable.normalizing_cte

\* format!("{}\n{}", self.normalizing_cte, user_sql)
full_sql(queryable, user_sql) ==
  queryable.normalizing_cte \o <<SqlText("\n")>> \o user_sql

\* Queryable::prepare
prepare(queryable, user_sql) ==
  sqlite_prepare(queryable.conn, full_sql(queryable, user_sql))

\* query_to_dataframe when the engine yields every row: the frame of a statement
frame_of(st) ==
  DataFrame_new([i \in DOMAIN st.column_names |->
                   build_series(st.column_names[i],
                                [r \in DOMAIN st.rows |-> RowValues(st.rows[r])[i]])])

\* let mut stmt = self.prepare(sql)?; .. DataFrame::new(series)
query_to_dataframe(queryable, sql) ==
  LET collect(st) == IF st.tag = "err" THEN st ELSE frame_of(st.v)
  IN  collect(prepare(queryable, sql))

\* BearDb::new_with_path once the connection is open
new_with_path(conn) ==
  LET metadata == discover_metadata(conn)
  IN  IF metadata.tag = "err" THEN metadata
      ELSE Ok([db_path |-> "database.sqlite",
               _metadata |-> metadata.v,
               normalizing_cte |-> generate_normalizing_cte(metadata.v)])

(***************************************************************************)
(* The installations of the model.                                         *)
(***************************************************************************)
MaxVersion == 10

MaxPairs == 2

MaxTables == 2

Versions == 9..MaxVersion

JunctionName(n) == Z_ \o Digits(n) \o TAGS

NotesColumn(n) == Z_ \o Digits(n) \o NOTES

TagsColumn(m) == Z_ \o Digits(m) \o TAGS

IdCell(i) == Integer(I64(FALSE, SmallMag(i)))

PairPool == (1..2) \X (1..2)

\* every arrangement of distinct names of a pool
Arrangements(pool) ==
  {cols \in SeqsUpTo(pool, Cardinality(pool)) :
     \A i, j \in DOMAIN cols : i # j => cols[i] # cols[j]}

\* Bear's database: the fixed tables and the junction table Z_<n>TAGS with
\* the columns Z_<n>NOTES and Z_<m>TAGS, in either order, holding the pairs
StandardDatabase(n, m, cols, pairs) ==
  << Table(ZSFNOTE, <<Z_PK>>, <<>>),
     Table(ZSFNOTETAG, <<Z_PK>>, <<>>),
     Table(JunctionName(n), cols,
           [r \in DOMAIN pairs |->
              [c \in DOMAIN cols |->
                 IdCell(IF cols[c] = NotesColumn(n) THEN pairs[r][1] ELSE pairs[r][2])]]),
     Table(ZSFNOTEBACKLINK, <<Z_PK>>, <<>>) >>

\* tables of other catalogs: those named Z_<digit>..TAGS with any columns,
\* those named otherwise with both junction columns
OtherTables(n, m) ==
  { Table(nm, cols, <<>>) :
      nm \in {JunctionName(n), JunctionName(m), Z_ \o Digits(n) \o <<"X">> \o TAGS},
      cols \in Arrangements({NotesColumn(n), NotesColumn(m), TagsColumn(m)}) }
  \cup
  { Table(nm, <<NotesColumn(n), TagsColumn(m)>>, <<>>) : nm \in {Z_ \o TAGS, ZSFNOTETAG} }

OtherDatabases(n, m) ==
  {db \in SeqsUpTo(OtherTables(n, m), MaxTables) :
     \A i, j \in DOMAIN db : i # j => db[i].name # db[j].name}

(***************************************************************************)
(* SpecDb: a BearDb is constructed on an installation and note_tags is     *)
(* read through it.                                                        *)
(***************************************************************************)
InitDb ==
  /\ SeriesIdle
  /\ QueryIdle
  /\ GatewayIdle
  /\ beardb = NoResult
  /\ query_result = NoResult
  /\ \E n \in Versions, m \in Versions :
       \/ \E pairs \in SeqsUpTo(PairPool, MaxPairs) :
            \E cols \in {<<NotesColumn(n), TagsColumn(m)>>, <<TagsColumn(m), NotesColumn(n)>>} :
              /\ install = [kind |-> "standard", n |-> n, m |-> m, pairs |-> pairs]
              /\ database = StandardDatabase(n, m, cols, pairs)
       \/ /\ install = [kind |-> "other", n |-> n, m |-> m, pairs |-> <<>>]
          /\ database \in OtherDatabases(n, m)

\* open_connection fails: the file cannot be opened or a pragma is refused
NewOpenFails ==
  /\ beardb = NoResult
  /\ beardb' = SqlErr("CannotOpen")
  /\ UNCHANGED <<install, database, query_result, seriesVars, queryVars, gatewayVars>>

New ==
  /\ beardb = NoResult
  /\ beardb' = new_with_path(database)
  /\ UNCHANGED <<install, database, query_result, seriesVars, queryVars, gatewayVars>>

QueryOpenFails ==
  /\ beardb.tag = "ok"
  /\ query_result = NoResult
  /\ query_result' = SqlErr("CannotOpen")
  /\ UNCHANGED <<install, database, beardb, seriesVars, queryVars, gatewayVars>>

\* BearDb::query: with_connection(|queryable| query_to_dataframe(queryable, sql))
Query ==
  /\ beardb.tag = "ok"
  /\ query_result = NoResult
  /\ query_result' =
       query_to_dataframe(Queryable_new(database, beardb.v.normalizing_cte), SelectNoteTags)
  /\ UNCHANGED <<install, database, beardb, seriesVars, queryVars, gatewayVars>>

NextDb == NewOpenFails \/ New \/ QueryOpenFails \/ Query

SpecDb == InitDb /\ [][NextDb]_vars

(***************************************************************************)
(* lib.rs: what the closure of each operation makes of the statement that  *)
(* was prepared.                                                           *)
(***************************************************************************)
\* the closure of an operation after its prepare: query collects the rows
\* into a frame; an accessor binds its parameters, maps each row and collects
\* with ?: tags into the map by id (the last tag of an id stays), the row of
\* get_note_by_id into Some(note), the ids of note_tags into a set
run(c, st) ==
  LET decode(names, rows) ==
        LET TagsMap(tags) ==
              [id \in {tags[i].id : i \in DOMAIN tags} |->
                 tags[CHOOSE i \in DOMAIN tags :
                        tags[i].id = id /\ \A j \in DOMAIN tags : tags[j].id = id => j <= i]]
            collect_tags(tags) == IF tags.tag = "err" THEN tags ELSE Ok(TagsMap(tags.v))
            optional_note(note) == IF note.tag = "err" THEN note ELSE Ok(Some(note.v))
            collect_ids(ids) ==
              IF ids.tag = "err" THEN ids ELSE Ok({ids.v[i] : i \in DOMAIN ids.v})
        IN  CASE c.fn = "tags" ->
                   collect_tags(FirstErr([i \in DOMAIN rows |-> tag_from_row(names, rows[i])]))
              [] c.fn = "get_note_by_id" ->
                   IF rows = <<>> THEN Ok(None)
                   ELSE optional_note(note_from_row(names, rows[1]))
              [] c.fn \in {"notes", "search", "note_links"} ->
                   FirstErr([i \in DOMAIN rows |-> note_from_row(names, rows[i])])
              [] c.fn = "note_tags" ->
                   collect_ids(FirstErr([i \in DOMAIN rows |->
                                           get_as(names, rows[i], "tag_id", "i64")]))
  IN  IF c.fn = "query" THEN frame_of(st)
      ELSE decode(st.column_names, Rows(st.select, st.source, params_of(c)))

(***************************************************************************)
(* The installations and the calls of SpecGateway.                         *)
(***************************************************************************)
\* stored timestamps: 0, 1.5, 31536000 (a year), 730900800 (2024-02-29
\* 12:00:00), -1, and none
TimestampPool ==
  { Real(F64(FALSE, MagOfNat(0), 0)),
    Real(F64(FALSE, MagOfNat(3), -1)),
    Real(F64(FALSE, MagOfNat(31536000), 0)),
    Real(F64(FALSE, MagOfNat(730900800), 0)),
    Real(F64(TRUE, MagOfNat(1), 0)),
    Null }

\* Bear's database with one note, one tag, one pair and one link
BearDatabase(n, m, modified, created, tag_modified) ==
  << Table(ZSFNOTE,
           <<Z_PK, Z.UNIQUEIDENTIFIER, Z.TITLE, Z.TEXT, Z.MODIFICATIONDATE, Z.CREATIONDATE,
             Z.PINNED, Z.TRASHED, Z.ARCHIVED>>,
           << <<IdCell(1), Text(<<110>>), Text(<<97>>), Text(<<98>>), modified, created,
                IdCell(0), IdCell(0), IdCell(0)>> >>),
     Table(ZSFNOTETAG, <<Z_PK, Z.TITLE, Z.MODIFICATIONDATE>>,
           << <<IdCell(1), Text(<<119>>), tag_modified>> >>),
     Table(JunctionName(n), <<NotesColumn(n), TagsColumn(m)>>, << <<IdCell(1), IdCell(1)>> >>),
     Table(ZSFNOTEBACKLINK, <<Z.LINKEDBY, Z.LINKINGTO>>, << <<IdCell(1), IdCell(1)>> >>) >>

\* databases on which discovery fails: no junction table, or one without
\* a column ending in TAGS
BrokenDatabases(n) ==
  { << Table(ZSFNOTE, <<Z_PK>>, <<>>), Table(ZSFNOTETAG, <<Z_PK>>, <<>>) >>,
    << Table(ZSFNOTE, <<Z_PK>>, <<>>), Table(JunctionName(n), <<NotesColumn(n)>>, <<>>) >> }

\* "1" and "n"
NoteIdPool == { <<49>>, <<110>> }

UserSqlPool ==
  { SelectNoteTags[1],
    SelectFrom("notes", <<"modified", "created">>),
    SelectFrom("tags", <<"modified">>),
    SelectFrom("notes", <<"id", "unique_id", "title", "content", "modified", "created",
                          "is_pinned", "is_trashed", "is_archived">>),
    SelectFrom("notes", <<"core_db_id">>),
    SelectFrom("notes", <<"id", "id">>) }

TypedCalls ==
  {[fn |-> "tags"]}
    \cup {[fn |-> "notes", query |-> q] :
            q \in {NotesQuery(Some(10), FALSE, FALSE), NotesQuery(None, TRUE, TRUE)}}
    \cup {[fn |-> "search", search |->
             SearchQuery(<<97>>, TRUE, TRUE, FALSE, Some(50),
                         OrderBy(Col("notes", "modified"), TRUE), FALSE, FALSE)]}
    \cup {[fn |-> "get_note_by_id", id |-> x] : x \in NoteIdPool}
    \cup {[fn |-> "note_links", from |-> x] : x \in NoteIdPool}
    \cup {[fn |-> "note_tags", from |-> x] : x \in NoteIdPool}

(***************************************************************************)
(* SpecGateway: the operations of a BearDb step by step.  Every operation  *)
(* goes through open_connection (lib.rs:161-179), then construction        *)
(* discovers and generates (514-532) and an accessor runs its closure on a *)
(* Queryable (536-552).                                                    *)
(***************************************************************************)
\* the connection of the operation in progress
Current == connections[Len(connections)]

\* the connection of the operation in progress after a change to it
Changed(conn) == [connections EXCEPT ![Len(connections)] = conn]

\* the connection goes out of scope
Dropped == SubSeq(connections, 1, Len(connections) - 1)

\* the operation returns r to its caller
Finish(r) ==
  /\ IF call.fn = "new" THEN beardb' = r /\ UNCHANGED query_result
                        ELSE query_result' = r /\ UNCHANGED beardb
  /\ call' = NoCall
  /\ at' = "idle"
  /\ statement' = NoStmt
  /\ outcome' = NoResult

InitGateway ==
  /\ SeriesIdle
  /\ QueryIdle
  /\ GatewayIdle
  /\ beardb = NoResult
  /\ query_result = NoResult
  /\ \E n \in Versions, m \in Versions :
       \/ \E modified \in TimestampPool, created \in TimestampPool,
             tag_modified \in TimestampPool :
            /\ install = [kind |-> "bear", n |-> n, m |-> m, modified |-> modified,
                          created |-> created, tag_modified |-> tag_modified]
            /\ database = BearDatabase(n, m, modified, created, tag_modified)
       \/ /\ install = [kind |-> "broken", n |-> n, m |-> m]
          /\ database \in BrokenDatabases(n)

\* BearDb::new: the home directory is not known
NoHomeDirectory ==
  /\ call = NoCall
  /\ beardb = NoResult
  /\ beardb' = Err("NoHomeDirectory")
  /\ UNCHANGED <<install, database, query_result, seriesVars, queryVars, gatewayVars>>

\* BearDb::new_with_path is entered
CallNew ==
  /\ call = NoCall
  /\ beardb = NoResult
  /\ call' = [fn |-> "new"]
  /\ at' = "open"
  /\ trace' = [trace EXCEPT !.opens = 0]
  /\ UNCHANGED <<connections, statement, prepared, outcome, dbVars, seriesVars, queryVars>>

\* an accessor of a BearDb is entered
Call ==
  /\ call = NoCall
  /\ beardb.tag = "ok"
  /\ \E c \in TypedCalls \cup {[fn |-> "query", sql |-> u] : u \in UserSqlPool} :
       call' = c
  /\ at' = "open"
  /\ query_result' = NoResult
  /\ prepared' = <<>>
  /\ trace' = [trace EXCEPT !.opens = 0]
  /\ UNCHANGED <<connections, statement, outcome, install, database, beardb,
                 seriesVars, queryVars>>

\* Connection::open_with_flags
Open ==
  /\ at = "open"
  /\ connections' =
       Append(connections,
              [flags |-> {"SQLITE_OPEN_READ_ONLY", "SQLITE_OPEN_NO_MUTEX"},
               busy_timeout |-> 0, query_only |-> FALSE, queries |-> 0])
  /\ trace' = [trace EXCEPT !.opens = @ + 1]
  /\ at' = "busy_timeout"
  /\ UNCHANGED <<call, statement, prepared, outcome, dbVars, seriesVars, queryVars>>

OpenFails ==
  /\ at = "open"
  /\ trace' = [trace EXCEPT !.opens = @ + 1]
  /\ Finish(SqlErr("CannotOpen"))
  /\ UNCHANGED <<connections, prepared, install, database, seriesVars, queryVars>>

\* conn.busy_timeout(Duration::from_millis(5000))
BusyTimeout ==
  /\ at = "busy_timeout"
  /\ connections' = Changed([Current EXCEPT !.busy_timeout = 5000])
  /\ at' = "query_only"
  /\ UNCHANGED <<call, statement, prepared, outcome, trace, dbVars, seriesVars, queryVars>>

BusyTimeoutFails ==
  /\ at = "busy_timeout"
  /\ connections' = Dropped
  /\ Finish(SqlErr("SqliteFailure"))
  /\ UNCHANGED <<prepared, trace, install, database, seriesVars, queryVars>>

\* Variant of QueryOnly that goes on without the pragma.
QueryOnly_skipped ==
  /\ at = "query_only"
  /\ at' = "body"
  /\ UNCHANGED <<connections, call, statement, prepared, outcome, trace, dbVars,
                 seriesVars, queryVars>>

\* conn.pragma_update(None, "query_only", "ON")
QueryOnly ==
  /\ at = "query_only"
  /\ connections' = Changed([Current EXCEPT !.query_only = TRUE])
  /\ at' = "body"
  /\ UNCHANGED <<call, statement, prepared, outcome, trace, dbVars, seriesVars, queryVars>>

QueryOnlyFails ==
  /\ at = "query_only"
  /\ connections' = Dropped
  /\ Finish(SqlErr("SqliteFailure"))
  /\ UNCHANGED <<prepared, trace, install, database, seriesVars, queryVars>>

\* schema::discover_metadata(&connection): the catalog query and, when a
\* table was found, the PRAGMA
Discover ==
  /\ at = "body"
  /\ call.fn = "new"
  /\ outcome' = discover_metadata(database)
  /\ connections' =
       Changed([Current EXCEPT !.queries =
                  @ + (IF find_junction_table(database).tag = "ok" THEN 2 ELSE 1)])
  /\ trace' = [trace EXCEPT !.discoveries = @ + 1]
  /\ at' = "discovered"
  /\ UNCHANGED <<call, statement, prepared, dbVars, seriesVars, queryVars>>

\* discover_metadata(..)? returns the error
DiscoveryFails ==
  /\ at = "discovered"
  /\ outcome.tag = "err"
  /\ connections' = Dropped
  /\ Finish(outcome)
  /\ UNCHANGED <<prepared, trace, install, database, seriesVars, queryVars>>

\* generate_normalizing_cte, drop(connection), Ok(BearDb { .. })
Construct ==
  /\ at = "discovered"
  /\ outcome.tag = "ok"
  /\ trace' = [trace EXCEPT !.generations = @ + 1]
  /\ connections' = Dropped
  /\ Finish(Ok([db_path |-> "database.sqlite",
                _metadata |-> outcome.v,
                normalizing_cte |-> generate_normalizing_cte(outcome.v)]))
  /\ UNCHANGED <<prepared, install, database, seriesVars, queryVars>>

\* the ? after prepare, on success: the closure goes on with the statement
StatementReady(st) ==
  /\ st.tag = "ok"
  /\ statement' = st.v
  /\ at' = "prepared"
  /\ UNCHANGED <<call, connections, outcome, beardb, query_result>>

\* Variant of QueryablePrepare that discovers the schema and generates the
\* block again for the statement.
QueryablePrepare_rediscover ==
  /\ at = "body"
  /\ call.fn # "new"
  /\ prepared' = Append(prepared,
                        full_sql(Queryable_new(database,
                                   generate_normalizing_cte(discover_metadata(database).v)),
                                 <<sql_of(call)>>))
  /\ StatementReady(prepare(Queryable_new(database,
                              generate_normalizing_cte(discover_metadata(database).v)),
                            <<sql_of(call)>>))
  /\ trace' = [trace EXCEPT !.discoveries = @ + 1, !.generations = @ + 1]
  /\ UNCHANGED <<install, database, seriesVars, queryVars>>

\* queryable.prepare(sql)? in the closure of an accessor, on the Queryable
\* with_connection made of the connection and the stored block
QueryablePrepare ==
  /\ at = "body"
  /\ call.fn # "new"
  /\ prepared' = Append(prepared,
                        full_sql(Queryable_new(database, beardb.v.normalizing_cte),
                                 <<sql_of(call)>>))
  /\ StatementReady(prepare(Queryable_new(database, beardb.v.normalizing_cte),
                            <<sql_of(call)>>))
  /\ UNCHANGED <<trace, install, database, seriesVars, queryVars>>

QueryablePrepareFails ==
  /\ at = "body"
  /\ call.fn # "new"
  /\ prepared' = Append(prepared,
                        full_sql(Queryable_new(database, beardb.v.normalizing_cte),
                                 <<sql_of(call)>>))
  /\ LET StatementRefused(st) == st.tag = "err" /\ Finish(st)
     IN  StatementRefused(prepare(Queryable_new(database, beardb.v.normalizing_cte),
                                  <<sql_of(call)>>))
  /\ connections' = Dropped
  /\ UNCHANGED <<trace, install, database, seriesVars, queryVars>>

\* the rest of the closure: the statement is run and its rows are decoded
Execute ==
  /\ at = "prepared"
  /\ outcome' = run(call, statement)
  /\ connections' = Changed([Current EXCEPT !.queries = @ + 1])
  /\ at' = "ran"
  /\ UNCHANGED <<call, statement, prepared, trace, dbVars, seriesVars, queryVars>>

\* Variant of WithConnectionReturns that keeps the connection open.
WithConnectionReturns_leak ==
  /\ at = "ran"
  /\ Finish(outcome)
  /\ UNCHANGED <<connections, prepared, trace, install, database, seriesVars, queryVars>>

\* with_connection returns what the closure returned; the connection goes
\* out of scope
WithConnectionReturns ==
  /\ at = "ran"
  /\ connections' = Dropped
  /\ Finish(outcome)
  /\ UNCHANGED <<prepared, trace, install, database, seriesVars, queryVars>>

NextGateway ==
  \/ NoHomeDirectory \/ CallNew \/ Call
  \/ Open \/ OpenFails \/ BusyTimeout \/ BusyTimeoutFails \/ QueryOnly \/ QueryOnlyFails
  \/ Discover \/ DiscoveryFails \/ Construct
  \/ QueryablePrepare \/ QueryablePrepareFails \/ Execute \/ WithConnectionReturns

SpecGateway == InitGateway /\ [][NextGateway]_vars

(***************************************************************************)
(* Properties of discovery, of the view block and of the gateway, checked  *)
(* under SpecDb.                                                           *)
(***************************************************************************)
\* new_with_path returned, and not because the connection could not be opened
Constructed == beardb # NoResult /\ beardb # SqlErr("CannotOpen")

\* query returned, and not because the connection could not be opened
Queried == query_result # NoResult /\ query_result # SqlErr("CannotOpen")

\* the versioned junction pattern: Z_, one or more digits, TAGS
VersionedJunctionName(nm) ==
  /\ Len(nm) > Len(Z_) + Len(TAGS)
  /\ SubSeq(nm, 1, Len(Z_)) = Z_
  /\ ends_with(nm, TAGS)
  /\ \A i \in (Len(Z_) + 1)..(Len(nm) - Len(TAGS)) : IsDigit(nm[i])

\* the tables of the catalog whose name has the versioned form
VersionedTables == {t \in DOMAIN database : VersionedJunctionName(database[t].name)}

HasColumnEnding(t, suffix) ==
  \E c \in DOMAIN database[t].columns : ends_with(database[t].columns[c], suffix)

\* C8: when no table of the catalog matches the versioned junction pattern,
\* or the junction table located has no column ending in NOTES or none
\* ending in TAGS, discover_metadata fails and so does the construction of
\* the BearDb: no BearDb value is produced.
C8_DiscoveryFailureIsFatal ==
  (/\ beardb # NoResult
   /\ \/ VersionedTables = {}
      \/ LET t == CHOOSE t \in VersionedTables : \A u \in VersionedTables : t <= u
         IN  ~HasColumnEnding(t, NOTES) \/ ~HasColumnEnding(t, TAGS))
    => beardb.tag = "err"

\* the pairs a frame of two columns holds, row by row
FramePairs(frame) ==
  {<<frame[1].data[r], frame[2].data[r]>> : r \in DOMAIN frame[1].data}

OneJunctionTable(a, b) ==
  LET like == {t \in DOMAIN database :
                 /\ SubSeq(database[t].name, 1, Len(Z_)) = Z_
                 /\ ends_with(database[t].name, TAGS)}
  IN  /\ Cardinality(like) = 1
      /\ \A t \in like :
           /\ database[t].name = JunctionName(a)
           /\ Len(database[t].columns) = 2
           /\ {database[t].columns[c] : c \in DOMAIN database[t].columns}
                = {NotesColumn(a), TagsColumn(b)}

\* C10: on a catalog with one junction table Z_<a>TAGS of columns Z_<a>NOTES
\* and Z_<b>TAGS, for any numbers a and b, discovery succeeds and returns
\* that table name, the column ending in NOTES as junction_notes_column and
\* the column ending in TAGS as junction_tags_column.
C10_DiscoveryReturnsTheJunction ==
  \A a, b \in Versions :
    (Constructed /\ OneJunctionTable(a, b)) =>
      /\ beardb.tag = "ok"
      /\ beardb.v._metadata = BearDbMetadata(JunctionName(a), NotesColumn(a), TagsColumn(b))

C10_Witness ==
  /\ beardb.tag = "ok"
  /\ OneJunctionTable(10, 9)
  /\ Len(database) = 4
  /\ beardb.v._metadata.junction_table_name = <<"Z", "_", "1", "0", "T", "A", "G", "S">>
  /\ beardb.v._metadata.junction_notes_column = <<"Z", "_", "1", "0", "N", "O", "T", "E", "S">>
  /\ beardb.v._metadata.junction_tags_column = <<"Z", "_", "9", "T", "A", "G", "S">>

\* C11: the junction table discovery selects has a name made of Z_, one or
\* more digits and TAGS; a table with any other character between the prefix
\* and the suffix is never selected, whatever the catalog.
C11_SelectedNameIsVersioned ==
  beardb.tag = "ok" => VersionedJunctionName(beardb.v._metadata.junction_table_name)

\* the first column of table t, in declaration order, ending in the suffix
FirstColumnEnding(t, suffix) ==
  LET hits == {c \in DOMAIN database[t].columns : ends_with(database[t].columns[c], suffix)}
  IN  database[t].columns[CHOOSE c \in hits : \A d \in hits : c <= d]

\* table t has more than one column ending in the suffix
ManyColumnsEnding(t, suffix) ==
  Cardinality({c \in DOMAIN database[t].columns :
                 ends_with(database[t].columns[c], suffix)}) > 1

\* C12: when several tables of the catalog match the versioned junction
\* pattern, or several columns of the junction table end in NOTES or in TAGS,
\* discovery does not fail on the multiplicity: the metadata is that of the
\* first matching table in catalog order, with the first column ending in
\* NOTES and the first ending in TAGS in declaration order.
C12_FirstMatchIsSelected ==
  (Constructed /\ VersionedTables # {}) =>
    LET t == CHOOSE t \in VersionedTables : \A u \in VersionedTables : t <= u
    IN  (/\ \/ Cardinality(VersionedTables) > 1
            \/ ManyColumnsEnding(t, NOTES)
            \/ ManyColumnsEnding(t, TAGS)
         /\ HasColumnEnding(t, NOTES)
         /\ HasColumnEnding(t, TAGS))
          => /\ beardb.tag = "ok"
             /\ beardb.v._metadata = BearDbMetadata(database[t].name,
                                                    FirstColumnEnding(t, NOTES),
                                                    FirstColumnEnding(t, TAGS))

(***************************************************************************)
(* Properties of SpecGateway.                                              *)
(***************************************************************************)
\* the operation that returned last failed in its prepare
PrepareRefused ==
  /\ call = NoCall
  /\ prepared # <<>>
  /\ query_result.tag = "err"
  /\ query_result = sqlite_prepare(database, prepared[Len(prepared)])

\* C13: the kind of an error tells a schema-discovery failure apart from a
\* query failure: whenever an operation returned the error of its prepare,
\* that error's kind differs from the kind discover_metadata reports on every
\* database whose schema it cannot discover.
C13_DiscoveryKindIsNotQueryKind ==
  PrepareRefused =>
    \A db \in BrokenDatabases(install.n) :
      discover_metadata(db).tag = "err" => discover_metadata(db).kind # query_result.kind

\* the text the operation in progress, or the last one, handed to the engine
LastPrepared == prepared[Len(prepared)]

\* C14: prepare hands the engine exactly the stored view block, a line break
\* and the caller's text, in that order and with the caller's text as given;
\* when the engine accepts the text the statement is kept and nothing has
\* been run on the connection; when it refuses, the operation returns the
\* engine's error and no statement is left.
C14_PrepareBlockThenUserText ==
  prepared # <<>> =>
    /\ Len(prepared) = 1
    /\ LastPrepared =
         beardb.v.normalizing_cte \o <<SqlText("\n")>> \o <<LastPrepared[Len(LastPrepared)]>>
    /\ at = "prepared" =>
         /\ LastPrepared[Len(LastPrepared)] = sql_of(call)
         /\ sqlite_prepare(database, LastPrepared) = Ok(statement)
         /\ Current.queries = 0
         /\ query_result = NoResult
    /\ (call = NoCall /\ sqlite_prepare(database, LastPrepared).tag = "err") =>
         /\ query_result = sqlite_prepare(database, LastPrepared)
         /\ statement = NoStmt

\* a query text was prepared and is about to be run
C14_Witness ==
  /\ at = "prepared"
  /\ call.fn = "query"
  /\ statement.rows # <<>>

\* C15: discovery and generation run once for a BearDb, in its
\* construction: once it is constructed each has run exactly once, whatever
\* operations followed and however they ended; the stored metadata and view
\* text are still the ones discovered and generated from the database, which
\* no operation changes; and every text handed to the engine begins with the
\* stored block.
C15_DiscoveredAndGeneratedOnce ==
  /\ trace.discoveries <= 1
  /\ trace.generations <= trace.discoveries
  /\ beardb.tag = "ok" =>
       /\ trace.discoveries = 1
       /\ trace.generations = 1
       /\ beardb.v._metadata = discover_metadata(database).v
       /\ beardb.v.normalizing_cte = generate_normalizing_cte(beardb.v._metadata)
       /\ \A k \in DOMAIN prepared :
            SubSeq(prepared[k], 1, Len(beardb.v.normalizing_cte)) = beardb.v.normalizing_cte

\* an operation on a constructed BearDb handed its text to the engine and
\* returned an error
C15_Witness ==
  /\ beardb.tag = "ok"
  /\ call = NoCall
  /\ prepared # <<>>
  /\ query_result.tag = "err"

ConnectionErrors == {SqlErr("CannotOpen"), SqlErr("SqliteFailure")}

\* C18: every connection is opened read-only; it has run no query while its
\* settings are being applied, and has the 5000 ms busy timeout and
\* query_only on whenever the operation's body holds it or a query has run
\* on it; an operation that returned an error of open_connection ran no
\* catalog query and handed no text to the engine.
C18_ReadOnlyAndSetUpBeforeUse ==
  /\ \A k \in DOMAIN connections :
       /\ "SQLITE_OPEN_READ_ONLY" \in connections[k].flags
       /\ at \in {"busy_timeout", "query_only"} => connections[k].queries = 0
       /\ (at \in {"body", "discovered", "prepared", "ran"} \/ connections[k].queries > 0) =>
            /\ connections[k].busy_timeout = 5000
            /\ connections[k].query_only
  /\ beardb \in ConnectionErrors => trace.discoveries = 0
  /\ (call = NoCall /\ query_result \in ConnectionErrors) => prepared = <<>>

\* a caller's query has run on the connection of its operation
C18_Witness ==
  /\ at = "ran"
  /\ call.fn = "query"
  /\ Current.queries = 1
  /\ Current.query_only

\* C19: on a BearDb whose construction succeeded, a typed accessor that
\* handed its text to the engine returns a result, never a query error:
\* every column its text names is a column of the relations of the view
\* block, and every column its row mapping reads is in its result.
C19_TypedAccessorsPrepareAndDecode ==
  (/\ call = NoCall
   /\ beardb.tag = "ok"
   /\ prepared # <<>>
   /\ \E c \in TypedCalls : LastPrepared[Len(LastPrepared)] = sql_of(c))
    => query_result.tag = "ok"

\* the cell read for a stored timestamp: NULL for NULL, else the text of the
\* date and time that many seconds after 2001-01-01 00:00:00, which is
\* 978307200 seconds after 1970-01-01 00:00:00
ReadsAsCoreDataTime(cell, stored) ==
  IF stored = Null THEN cell = Ok(Null)
  ELSE /\ cell.tag = "ok"
       /\ cell.v.kind = "Text"
       /\ IsDateTimeText(cell.v.v)
       /\ ParseDateTime(cell.v.v) = WholeSeconds(stored, 0) + 978307200
       /\ WholeSeconds(stored, 0) = 0 =>
            cell.v.v = <<50, 48, 48, 49, 45, 48, 49, 45, 48, 49, 32,
                         48, 48, 58, 48, 48, 58, 48, 48>>

\* C20: the timestamp columns of notes and tags read as the stored value
\* plus 978307200 seconds, so a stored 0 reads 2001-01-01 00:00:00; this holds
\* with the same offset whatever the junction table and columns discovered.
C20_TimestampsAreStoredPlusEpoch ==
  (at = "ran" /\ install.kind = "bear") =>
    /\ (call.fn = "query" /\ call.sql = SelectFrom("notes", <<"modified", "created">>)) =>
         /\ Len(statement.rows) = 1
         /\ Len(statement.rows[1]) = 2
         /\ ReadsAsCoreDataTime(statement.rows[1][1], install.modified)
         /\ ReadsAsCoreDataTime(statement.rows[1][2], install.created)
    /\ (call.fn = "query" /\ call.sql = SelectFrom("tags", <<"modified">>)) =>
         /\ Len(statement.rows) = 1
         /\ ReadsAsCoreDataTime(statement.rows[1][1], install.tag_modified)
    /\ call.fn = "tags" =>
         /\ outcome.tag = "ok"
         /\ \A id \in DOMAIN outcome.v :
              outcome.v[id].modified =
                IF install.tag_modified = Null THEN None
                ELSE Some(WholeSeconds(install.tag_modified, 0) + 978307200)

\* a note stored with modification time 0 and creation time 1.5 was read
C20_Witness ==
  /\ at = "ran"
  /\ install.kind = "bear"
  /\ install.n # install.m
  /\ install.modified = Real(F64(FALSE, MagOfNat(0), 0))
  /\ install.created = Real(F64(FALSE, MagOfNat(3), -1))
  /\ call = [fn |-> "query", sql |-> SelectFrom("notes", <<"modified", "created">>)]

(***************************************************************************)
(* Properties of the typed accessors, checked under SpecGateway.           *)
(***************************************************************************)
\* an accessor that handed its text to the engine returns to its caller
AccessorReturns(fn) ==
  /\ call.fn = fn
  /\ at \in {"body", "ran"}
  /\ call' = NoCall

\* the rows of ZSFNOTE
StoredNotes == TableNamed(database, ZSFNOTE)

\* C21: get_note_by_id(x) returns Ok(Some(note)) with note.id() = x when the
\* store holds a note whose identifier is x, and Ok(None), not an error,
\* when it holds none.
C21_GetNoteByIdFindsTheNote ==
  [][AccessorReturns("get_note_by_id") =>
       IF \E r \in DOMAIN StoredNotes.rows :
            Cell(StoredNotes, r, Z.UNIQUEIDENTIFIER) = Text(call.id)
         THEN /\ query_result'.tag = "ok"
              /\ query_result'.v.some
              /\ query_result'.v.v.id = call.id
       ELSE /\ query_result'.tag = "ok"
            /\ ~query_result'.v.some]_vars

\* the options of the notes or search call c
OptionsOf(c) == IF c.fn = "notes" THEN c.query ELSE c.search

\* the flag of a stored note is set
Flagged(r, column) ==
  /\ Cell(StoredNotes, r, column).kind = "Integer"
  /\ Cell(StoredNotes, r, column).v = IdCell(1).v

\* a stored note passes the trashed and archived options
Eligible(r, options) ==
  /\ options.include_trashed \/ ~Flagged(r, Z.TRASHED)
  /\ options.include_archived \/ ~Flagged(r, Z.ARCHIVED)

\* the text q occurs in the cell, letters of ASCII compared without case
\* unless sensitive
Occurs(q, cell, sensitive) ==
  LET Fold(s) ==
        [i \in DOMAIN s |-> IF ~sensitive /\ s[i] \in 65..90 THEN s[i] + 32 ELSE s[i]]
  IN  /\ cell.kind = "Text"
      /\ \E k \in 0..(Len(cell.v) - Len(q)) :
           SubSeq(Fold(cell.v), k + 1, k + Len(q)) = Fold(q)

\* a stored note matches a search
Matches(r, search) ==
  \/ search.search_title
       /\ Occurs(search.query, Cell(StoredNotes, r, Z.TITLE), search.case_sensitive)
  \/ search.search_content
       /\ Occurs(search.query, Cell(StoredNotes, r, Z.TEXT), search.case_sensitive)

\* the stored notes the call c asks for
Wanted(c) ==
  {r \in DOMAIN StoredNotes.rows :
     Eligible(r, OptionsOf(c)) /\ (c.fn = "search" => Matches(r, c.search))}

\* the stored notes with the identifier of a returned note
StoredAs(note) ==
  {r \in DOMAIN StoredNotes.rows :
     Cell(StoredNotes, r, Z.UNIQUEIDENTIFIER) = Text(note.id)}

\* C22: notes(q) and search(q) return only notes that are not trashed unless
\* trashed notes were included, and not archived unless archived notes were
\* included; when the limit does not cut the result, every such note (that
\* matches, for search) is returned.
C22_TrashedAndArchivedFiltered ==
  [][\A fn \in {"notes", "search"} :
       AccessorReturns(fn) =>
         /\ query_result'.tag = "ok"
         /\ \A i \in DOMAIN query_result'.v :
              \E r \in StoredAs(query_result'.v[i]) : Eligible(r, OptionsOf(call))
         /\ (OptionsOf(call).limit.some =>
               Cardinality(Wanted(call)) <= OptionsOf(call).limit.v) =>
              \A r \in Wanted(call) :
                \E i \in DOMAIN query_result'.v : r \in StoredAs(query_result'.v[i])]_vars

\* C23: notes and search return at most n notes when the bound of the query
\* is n (10 for notes and 50 for search unless set), and every matching
\* note when the bound was removed.
C23_LimitBoundsTheResult ==
  [][\A fn \in {"notes", "search"} :
       AccessorReturns(fn) =>
         /\ query_result'.tag = "ok"
         /\ IF OptionsOf(call).limit.some
              THEN Len(query_result'.v) <= OptionsOf(call).limit.v
            ELSE Len(query_result'.v) = Cardinality(Wanted(call))]_vars

\* C24: search returns only notes whose title, when titles are searched, or
\* content, when contents are searched, holds the query text as a substring,
\* without regard to case unless the search is case sensitive.
C24_SearchMatchesSubstring ==
  [][AccessorReturns("search") =>
       /\ query_result'.tag = "ok"
       /\ \A i \in DOMAIN query_result'.v :
            \E r \in StoredAs(query_result'.v[i]) : Matches(r, call.search)]_vars

(***************************************************************************)
(* Properties of the assembly of the frame, checked under SpecQuery.       *)
(***************************************************************************)
\* two result columns of the statement have the same name
RepeatedName ==
  \E i, j \in DOMAIN stmt.column_names : i < j /\ stmt.column_names[i] = stmt.column_names[j]

\* C25: in the row loop there is one buffer per result column, and after k
\* rows every buffer, and the column built from it, holds k cells; a frame
\* returned has columns of one length, the number of rows streamed, and the
\* assembly fails only on a repeated column name, never on the lengths.
C25_BuffersGrowTogether ==
  /\ pc = "rows" =>
       /\ DOMAIN columns = DOMAIN stmt.column_names
       /\ \A i \in DOMAIN columns :
            /\ Len(columns[i]) = next_row - 1
            /\ Len(build_series(stmt.column_names[i], columns[i]).data) = next_row - 1
  /\ result.tag = "ok" =>
       \A c \in DOMAIN result.v : Len(result.v[c].data) = Len(stmt.rows)
  /\ result = Err("PolarsError") => RepeatedName

\* two rows of two columns were streamed, with a NULL in one column only,
\* and the frame was assembled
C25_Witness ==
  /\ result.tag = "ok"
  /\ Len(stmt.column_names) = 2
  /\ Len(stmt.rows) = 2
  /\ KindRead(stmt.rows[1][1]) = "Null"
  /\ KindRead(stmt.rows[1][2]) = "Integer"
  /\ KindRead(stmt.rows[2][1]) = "Text"
  /\ Len(result.v[1].data) = 2

\* C26: when the statement prepared and every row was read, a frame is
\* returned whose columns are the result columns of the statement, also when
\* two result columns have the same name.
C26_RepeatedNamesAssemble ==
  (Returned /\ stmt # NoStmt /\ ~EngineFailed) =>
    /\ result.tag = "ok"
    /\ [c \in DOMAIN result.v |-> result.v[c].name] = stmt.column_names

(***************************************************************************)
(* Properties of the junction columns, checked under SpecDb.               *)
(***************************************************************************)
\* the positions of a column name among the columns of the table discovered
PositionsOf(metadata, column) ==
  {c \in DOMAIN TableNamed(database, metadata.junction_table_name).columns :
     TableNamed(database, metadata.junction_table_name).columns[c] = column}

\* C27: when discovery succeeded, junction_notes_column ends in NOTES and
\* junction_tags_column in TAGS, both are columns of the table named by
\* junction_table_name, and they are different columns; note_id and tag_id
\* of note_tags are read from these two, never from one column.
C27_TwoDistinctJunctionColumns ==
  beardb.tag = "ok" =>
    /\ \E t \in DOMAIN database :
         database[t].name = beardb.v._metadata.junction_table_name
    /\ ends_with(beardb.v._metadata.junction_notes_column, NOTES)
    /\ ends_with(beardb.v._metadata.junction_tags_column, TAGS)
    /\ PositionsOf(beardb.v._metadata, beardb.v._metadata.junction_notes_column) # {}
    /\ PositionsOf(beardb.v._metadata, beardb.v._metadata.junction_tags_column) # {}
    /\ PositionsOf(beardb.v._metadata, beardb.v._metadata.junction_notes_column)
         \cap PositionsOf(beardb.v._metadata, beardb.v._metadata.junction_tags_column) = {}
    /\ beardb.v._metadata.junction_notes_column # beardb.v._metadata.junction_tags_column
    /\ ViewSource(beardb.v.normalizing_cte, "note_tags").table
         = beardb.v._metadata.junction_table_name
    /\ beardb.v.normalizing_cte[2] = Ident(beardb.v._metadata.junction_notes_column)
    /\ beardb.v.normalizing_cte[4] = Ident(beardb.v._metadata.junction_tags_column)

\* discovery succeeded on a junction table of three columns whose first
\* column ends in TAGS and whose two others end in NOTES
C27_Witness ==
  /\ beardb.tag = "ok"
  /\ install.kind = "other"
  /\ Len(TableNamed(database, beardb.v._metadata.junction_table_name).columns) = 3
  /\ PositionsOf(beardb.v._metadata, beardb.v._metadata.junction_tags_column) = {1}
  /\ PositionsOf(beardb.v._metadata, beardb.v._metadata.junction_notes_column) = {2}

====
